---- MODULE Spec2Model ----
(***************************************************************************)
(* EliteBot (cog): the command gate of CogBot.dispatch_command, the sheet  *)
(* resync (SheetScanner.scan), the Drop/Hold handlers and the background   *)
(* job queue.  cog/scheduler.py and cog/jobs.py are not part of the        *)
(* sources at hand; the Scheduler and the Job queue are modelled from      *)
(* their contract (spec.md 4.4, 4.5, 5) and marked so in MODEL_MAP.json.   *)
(***************************************************************************)
EXTENDS Integers, Sequences, FiniteSets, TLC

\* ------------------------------------------------------------------ bounds
MaxMsgs == 2
MaxCmds == 1
MaxSched == 1
MaxCallbacks == 1
MaxSystems == 2
MaxUsers == 2
MaxDrops == 3

\* ------------------------------------------------------- program constants
Wrappers == {"hudson_cattle", "hudson_undermine"}

Msgs == 1..MaxMsgs

\* The gated commands (CogBot.on_ready registers them): those that only read the
\* database and answer, and the two merit commands that write to it.
QueryCmds == {"Fort", "UM", "User"}

MeritCmds == {"Drop", "Hold"}

\* CogBot.on_ready: sched.register(name, scanner, [commands it gates])
Gates(w) ==
  IF w = "hudson_cattle" THEN {"Drop", "Fort", "User"} ELSE {"Hold", "UM", "User"}

\* check_sheet('hudson_cattle', 'cattle') on Drop, check_sheet('hudson_undermine',
\* 'undermine') on Hold: the sheet a merit handler reads and writes.
SheetOf(name) ==
  IF name = "Drop" THEN "hudson_cattle" ELSE "hudson_undermine"

\* args.amount of the c-th command: the first drops 100, the later ones 50.
Amount(c) ==
  IF c = 1 THEN 100 ELSE 50

Blank == -1

\* What the remote sheets hold before any job has written to them.  Each has
\* one system column (status 0).  The fort sheet has no row for the author yet,
\* the undermining sheet has the author's row with 300 merits held.
Sheet0(w) ==
  IF w = "hudson_cattle"
  THEN [systems |-> 0, users |-> FALSE, merits |-> Blank]
  ELSE [systems |-> 0, users |-> TRUE, merits |-> 300]

\* A database without rows (before the first scan).
EmptyStore ==
  [systems |-> Blank, users |-> FALSE, merits |-> Blank]

VARIABLES
  deny_commands,  \* CogBot.deny_commands
  onready,        \* position of the one time setup of CogBot.on_ready
  wstate,         \* Scheduler: wrapper -> "ACTIVE" | "SYNCING"
  scanpc,         \* position of the resync of each wrapper
  running,        \* number of resyncs of each wrapper in progress
  nsched,         \* number of schedule events so far (bounded by MaxSched)
  overlap,        \* a schedule request has reached a wrapper that was SYNCING
  remote,         \* the remote sheet of each wrapper
  store,          \* the local database tables of each wrapper
  pre,            \* the store of each SYNCING wrapper when its resync began
  cmd,            \* message -> command name, "none" before it arrives
  pc,             \* message -> position of its coroutine
  waiters,        \* commands suspended in Scheduler.wait_for, oldest first
  ready,          \* woken commands in the loop's ready queue, oldest first
  susp,           \* the delayed commands in the order in which they began to wait
  started,        \* the commands whose handler has started
  looped,         \* the commands in flight that found the gate closed again
  jobs,           \* the jobs in the order of their submission, with their state
  pool,           \* cog.jobs.POOL: "open" | "closed" | "stopped"
  halt,           \* position of bot_shutdown, "none" before Admin.halt
  inp,            \* the arguments of the call of a function under study
  out             \* what the call returned or raised, "none" before it

vars ==
  << deny_commands, onready, wstate, scanpc, running, nsched, overlap, remote,
     store, pre, cmd, pc, waiters, ready, susp, started, looped,
     jobs, pool, halt, inp, out >>

schedVars == << wstate, scanpc, running, nsched, overlap, pre >>
sheetVars == << remote, store >>
msgVars == << cmd, pc >>
loopVars == << waiters, ready >>
histVars == << susp, started, looped >>
jobVars == << jobs >>
haltVars == << pool, halt >>
callVars == << inp, out >>
auxVars == << pool, halt, inp, out >>
botVars ==
  << deny_commands, onready, wstate, scanpc, running, nsched, overlap, remote,
     store, pre, cmd, pc, waiters, ready, susp, started, looped, jobs, pool,
     halt >>

\* ----------------------------------------------------------------- helpers
Range(s) == {s[i] : i \in 1..Len(s)}

Remove(s, x) == SelectSeq(s, LAMBDA y : y # x)

Pos(s, x) == CHOOSE i \in 1..Len(s) : s[i] = x

\* Scheduler.disabled(cmd): a wrapper gating cmd is SYNCING.
disabled(name) ==
  \E w \in Wrappers : name \in Gates(w) /\ wstate[w] = "SYNCING"

BotInit ==
  /\ deny_commands = TRUE
  /\ onready = "init"
  /\ wstate = [w \in Wrappers |-> "ACTIVE"]
  /\ scanpc = [w \in Wrappers |-> "idle"]
  /\ running = [w \in Wrappers |-> 0]
  /\ nsched = 0
  /\ overlap = FALSE
  /\ remote = [w \in Wrappers |-> Sheet0(w)]
  /\ store = [w \in Wrappers |-> EmptyStore]
  /\ pre = [w \in Wrappers |-> EmptyStore]
  /\ cmd = [c \in Msgs |-> "none"]
  /\ pc = [c \in Msgs |-> "idle"]
  /\ waiters = << >>
  /\ ready = << >>
  /\ susp = << >>
  /\ started = {}
  /\ looped = {}
  /\ jobs = << >>
  /\ pool = "open"
  /\ halt = "none"

\* No function is under study.
NoCall ==
  inp = "none" /\ out = "none"

Init ==
  BotInit /\ NoCall

\* ---------------------------------------------------------------- Scheduler
\* Startable without the mutual exclusion: every request starts a resync.
Startable_always(w) ==
  TRUE

\* A resync of w may start: resyncs of one wrapper exclude each other through
\* the SYNCING state.
Startable(w) ==
  wstate[w] = "ACTIVE"

\* Scheduler.schedule(w) for every w in ws: ACTIVE -> SYNCING, one resync starts.
Schedule(ws) ==
  /\ wstate' = [w \in Wrappers |->
                  IF w \in ws /\ Startable(w) THEN "SYNCING" ELSE wstate[w]]
  /\ scanpc' = [w \in Wrappers |->
                  IF w \in ws /\ Startable(w) THEN "fetch" ELSE scanpc[w]]
  /\ running' = [w \in Wrappers |->
                   IF w \in ws /\ Startable(w) THEN running[w] + 1 ELSE running[w]]
  /\ pre' = [w \in Wrappers |->
               IF w \in ws /\ Startable(w) THEN store[w] ELSE pre[w]]
  /\ overlap' = (overlap \/ \E w \in ws : wstate[w] = "SYNCING")

\* Scheduler.schedule_all()
schedule_all ==
  Schedule(Wrappers)

\* CogBot.on_ready, the one time setup up to its first await: the scanners are
\* initialised, both wrappers registered and all sheets scheduled.
OnReadySetup ==
  /\ onready = "init"
  /\ onready' = "sleep"
  /\ schedule_all
  /\ UNCHANGED << deny_commands, nsched, sheetVars, msgVars, loopVars, histVars, jobVars >>
  /\ UNCHANGED auxVars

\* CogBot.on_ready after connect_sub and the sleeps: commands are accepted.
OnReadyDone ==
  /\ onready = "sleep"
  /\ onready' = "done"
  /\ deny_commands' = FALSE
  /\ UNCHANGED << schedVars, sheetVars, msgVars, loopVars, histVars, jobVars >>
  /\ UNCHANGED auxVars

\* Admin.scan: an admin command is accepted also while deny_commands is set and
\* is gated by no wrapper.
AdminScan ==
  /\ onready # "init"
  /\ nsched < MaxSched
  /\ nsched' = nsched + 1
  /\ schedule_all
  /\ UNCHANGED << deny_commands, onready, sheetVars, msgVars, loopVars, histVars, jobVars >>
  /\ UNCHANGED auxVars

\* The periodic timer tick of one wrapper.
Tick(w) ==
  /\ onready # "init"
  /\ nsched < MaxSched
  /\ nsched' = nsched + 1
  /\ Schedule({w})
  /\ UNCHANGED << deny_commands, onready, sheetVars, msgVars, loopVars, histVars, jobVars >>
  /\ UNCHANGED auxVars

\* ------------------------------------------------------------------- resync
\* The rows of the previous layout are removed together with the merit rows
\* that reference them (System.merits cascades) when the new ones are written.
Purged(t) ==
  [t EXCEPT !.merits = Blank]

\* SheetScanner.scan, first half: systems = self.systems(); users = self.users();
\* session.add_all(systems + users); session.commit().  The grid is fetched once
\* per scan (SheetScanner.cells); the fetch or the parse may raise, and then
\* nothing is written.
ScanSystemsUsers(w) ==
  /\ scanpc[w] = "fetch"
  /\ \/ /\ scanpc' = [scanpc EXCEPT ![w] = "failed"]
        /\ UNCHANGED store
     \/ /\ scanpc' = [scanpc EXCEPT ![w] = "merits"]
        /\ store' = [store EXCEPT ![w] =
                       Purged([store[w] EXCEPT !.systems = remote[w].systems,
                                               !.users = remote[w].users])]
  /\ UNCHANGED << deny_commands, onready, wstate, running, nsched, overlap, pre,
                  remote, msgVars, loopVars, histVars, jobVars >>
  /\ UNCHANGED auxVars

\* SheetScanner.scan, second half: session.add_all(self.merits(systems, users));
\* session.commit().  merits() may raise; then the second commit is not reached.
ScanMerits(w) ==
  /\ scanpc[w] = "merits"
  /\ \/ /\ scanpc' = [scanpc EXCEPT ![w] = "failed"]
        /\ UNCHANGED store
     \/ /\ scanpc' = [scanpc EXCEPT ![w] = "finished"]
        /\ store' = [store EXCEPT ![w].merits = remote[w].merits]
  /\ UNCHANGED << deny_commands, onready, wstate, running, nsched, overlap, pre,
                  remote, msgVars, loopVars, histVars, jobVars >>
  /\ UNCHANGED auxVars

\* Ended without the release after a failure: only a finished scan ends the
\* resync.
Ended_success(w) ==
  scanpc[w] = "finished"

\* The resync of w may be ended: it has run to completion or has failed
\* (a failure still releases the gate).
Ended(w) ==
  scanpc[w] \in {"failed", "finished"}

\* The waiters that the broadcast of wrapper w releases: those whose command w
\* gates, in the order in which they began to wait.
Released(w) ==
  SelectSeq(waiters, LAMBDA c : cmd[c] \in Gates(w))

\* The end of a resync: SYNCING -> ACTIVE and the broadcast to the waiters, which
\* the loop wakes in the order in which they began to wait.
ResyncEnd(w) ==
  /\ wstate[w] = "SYNCING"
  /\ Ended(w)
  /\ wstate' = [wstate EXCEPT ![w] = "ACTIVE"]
  /\ scanpc' = [scanpc EXCEPT ![w] = "idle"]
  /\ running' = [running EXCEPT ![w] = running[w] - 1]
  /\ pre' = [pre EXCEPT ![w] = EmptyStore]
  /\ ready' = ready \o Released(w)
  /\ waiters' = SelectSeq(waiters, LAMBDA c : c \notin Range(Released(w)))
  /\ pc' = [c \in Msgs |-> IF c \in Range(Released(w)) THEN "woken" ELSE pc[c]]
  /\ UNCHANGED << deny_commands, onready, nsched, overlap, sheetVars, cmd,
                  histVars, jobVars >>
  /\ UNCHANGED auxVars

\* ----------------------------------------------------------------- handlers
\* cog.jobs.Job(partial(...)) followed by cog.jobs.background_start(job): the job
\* joins the queue of its sheet at the call.
Submit(w, kind, c, cell, status) ==
  jobs' = IF pool # "open" THEN jobs
          ELSE Append(jobs, [sheet |-> w, kind |-> kind, by |-> c, cell |-> cell,
                             status |-> status, ncb |-> MaxCallbacks,
                             st |-> "queued", calls |-> 0, faults |-> 0,
                             cbs |-> << >>])

\* The handler of c after background_start: it awaits the call (at) when the
\* pool took the job; a pool that is not open raises, which ends the command.
Submitted(c, name, at) ==
  /\ pc' = [pc EXCEPT ![c] = IF pool = "open" THEN at ELSE "raised"]
  /\ cmd' = [cmd EXCEPT ![c] = IF pool = "open" THEN name ELSE "none"]
  /\ looped' = IF pool = "open" THEN looped ELSE looped \ {c}

\* fort_add_drop: the Drop of the pair is created with the amount or has the
\* amount added, and fort_status of the system grows by the amount.
\* um_add_hold: the Hold of the pair is created or has its held merits set.
Upsert(name, t, amount) ==
  IF name = "Drop"
  THEN [t EXCEPT !.merits = (IF t.merits = Blank THEN 0 ELSE t.merits) + amount,
                 !.systems = t.systems + amount]
  ELSE [t EXCEPT !.merits = amount]

\* Carried with the amount of the command (args.amount) in the place of the
\* amount of the record.
Carried_delta(name, t, amount) ==
  amount

\* The value the merit job carries to the remote cell: drop.amount, hold.held.
Carried(name, t, amount) ==
  Upsert(name, t, amount).merits

\* The body of Drop.execute / Hold.execute up to its await of background_start:
\* find the system, upsert the merit, commit, submit the job that copies the
\* merit (and the system's status) to the sheet.  Without a system or without
\* the author's row the lookup raises.
Body(c, name) ==
  LET w == SheetOf(name) IN
  IF store[w].systems = Blank \/ ~ store[w].users
  THEN /\ pc' = [pc EXCEPT ![c] = "raised"]
       /\ cmd' = [cmd EXCEPT ![c] = "none"]
       /\ looped' = looped \ {c}
       /\ UNCHANGED << store, jobVars >>
  ELSE /\ store' = [store EXCEPT ![w] = Upsert(name, store[w], Amount(c))]
       /\ Submit(w, "merit", c, Carried(name, store[w], Amount(c)),
                 Upsert(name, store[w], Amount(c)).systems)
       /\ Submitted(c, name, "bg_start")

\* cogdb.query.check_perms, then cls(**kwargs).execute() up to its first await.
\* Drop and Hold run check_sheet first: an author without a row in the sheet is
\* added, a job that writes the row is submitted and awaited.  The other gated
\* commands read the database and go on to their reply.
StartHandler(c, name) ==
  /\ susp' = Remove(susp, c)
  /\ \E ok \in BOOLEAN :
       IF ~ ok
       THEN /\ pc' = [pc EXCEPT ![c] = "denied"]
            /\ cmd' = [cmd EXCEPT ![c] = "none"]
            /\ looped' = looped \ {c}
            /\ UNCHANGED << store, jobVars, started >>
       ELSE /\ started' = started \cup {c}
            /\ IF name \in QueryCmds
               THEN /\ pc' = [pc EXCEPT ![c] = "reply"]
                    /\ cmd' = [cmd EXCEPT ![c] = name]
                    /\ UNCHANGED << store, jobVars, looped >>
               ELSE IF ~ store[SheetOf(name)].users
               THEN /\ store' = [store EXCEPT ![SheetOf(name)].users = TRUE]
                    /\ Submit(SheetOf(name), "user", c, Blank, Blank)
                    /\ Submitted(c, name, "chk_sheet")
               ELSE Body(c, name)

\* LoopAgain with an `if` where the code has its `while`: a resumed command
\* goes on without looking at the gate again.
LoopAgain_once(name) ==
  FALSE

\* CogBot.dispatch_command: while self.sched.disabled(args.cmd), evaluated again
\* after the command has been resumed.
LoopAgain(name) ==
  disabled(name)

\* CogBot.on_message -> dispatch_command for a command that ignore_message lets
\* through: a gated command announces the delay, the others start their handler.
Dispatch(c, name) ==
  /\ ~ deny_commands
  /\ pc[c] = "idle"
  /\ \A d \in Msgs : d < c => pc[d] # "idle"
  /\ IF disabled(name)
     THEN /\ pc' = [pc EXCEPT ![c] = "notify"]
          /\ cmd' = [cmd EXCEPT ![c] = name]
          /\ UNCHANGED << store, jobVars, histVars >>
     ELSE StartHandler(c, name)
  /\ UNCHANGED << deny_commands, onready, schedVars, remote, loopVars >>
  /\ UNCHANGED auxVars

\* Scheduler.wait_for(cmd), called after the announcement has been sent: the
\* command waits for the broadcast unless no gating wrapper is SYNCING any more.
WaitFor(c) ==
  IF disabled(cmd[c])
  THEN /\ pc' = [pc EXCEPT ![c] = "waiting"]
       /\ waiters' = Append(waiters, c)
       /\ susp' = Append(Remove(susp, c), c)
       /\ UNCHANGED << started, looped >>
  ELSE /\ pc' = [pc EXCEPT ![c] = "resume"]
       /\ UNCHANGED << waiters, histVars >>

\* An await of CogBot.send_message returns (one of its attempts succeeded).
\* After the announcement the command waits, after the resume notice it checks
\* the gate again, after the reply of the handler it is done.
SendOk(c) ==
  /\ pc[c] \in {"notify", "resume", "reply"}
  /\ IF pc[c] = "notify"
     THEN /\ WaitFor(c)
          /\ UNCHANGED << cmd, store, jobVars, ready >>
     ELSE IF pc[c] = "resume"
     THEN /\ IF LoopAgain(cmd[c])
             THEN /\ pc' = [pc EXCEPT ![c] = "notify"]
                  /\ looped' = looped \cup {c}
                  /\ UNCHANGED << cmd, store, jobVars, susp, started >>
             ELSE StartHandler(c, cmd[c])
          /\ UNCHANGED loopVars
     ELSE /\ pc' = [pc EXCEPT ![c] = "done"]
          /\ cmd' = [cmd EXCEPT ![c] = "none"]
          /\ looped' = looped \ {c}
          /\ UNCHANGED << store, jobVars, susp, started, loopVars >>
  /\ UNCHANGED << deny_commands, onready, schedVars, remote >>
  /\ UNCHANGED auxVars

\* An await of CogBot.send_message raises (its last attempt failed with
\* discord.HTTPException): the exception reaches on_message, which ends the
\* command.  A command that had not reached its handler is lost.
SendRaise(c) ==
  /\ pc[c] \in {"notify", "resume", "reply"}
  /\ pc' = [pc EXCEPT ![c] = IF pc[c] = "reply" THEN "raised" ELSE "lost"]
  /\ cmd' = [cmd EXCEPT ![c] = "none"]
  /\ susp' = Remove(susp, c)
  /\ looped' = looped \ {c}
  /\ UNCHANGED << deny_commands, onready, schedVars, sheetVars, loopVars,
                  started, jobVars >>
  /\ UNCHANGED auxVars

\* The loop runs the oldest woken command: wait_for returns and the resume notice
\* is sent.
Wake(c) ==
  /\ ready # << >>
  /\ Head(ready) = c
  /\ ready' = Tail(ready)
  /\ pc' = [pc EXCEPT ![c] = "resume"]
  /\ UNCHANGED << deny_commands, onready, schedVars, sheetVars, cmd, waiters,
                  histVars, jobVars >>
  /\ UNCHANGED auxVars

\* The await of cog.jobs.background_start returns: check_sheet goes on to the
\* body of the handler, the body goes on to its reply.
BgDone(c) ==
  /\ pc[c] \in {"chk_sheet", "bg_start"}
  /\ IF pc[c] = "chk_sheet"
     THEN Body(c, cmd[c])
     ELSE /\ pc' = [pc EXCEPT ![c] = "reply"]
          /\ UNCHANGED << cmd, store, jobVars, looped >>
  /\ UNCHANGED << deny_commands, onready, schedVars, remote, loopVars,
                  susp, started >>
  /\ UNCHANGED auxVars

\* ---------------------------------------------------------------- job queue
\* The identities of the jobs: a merit command submits at most two.
JobIds == 1..(2 * MaxMsgs)

\* The jobs of sheet w that are in one of the states sts.
JobsIn(w, sts) ==
  {j \in DOMAIN jobs : jobs[j].sheet = w /\ jobs[j].st \in sts}

InProgress == {"running", "written", "expired"}

\* WorkerFree for a pool whose workers take any job: nothing serializes the jobs
\* of one sheet.
WorkerFree_pool(w) ==
  TRUE

\* The dedicated worker of sheet w has no job in progress.
WorkerFree(w) ==
  JobsIn(w, InProgress) = {}

\* The job the worker of sheet w pulls: the one submitted first.
NextJob(w) ==
  CHOOSE j \in JobsIn(w, {"queued"}) : \A k \in JobsIn(w, {"queued"}) : j <= k

\* The state of a failed job that a retrying queue gives it: queued again.
FailedState_retry ==
  "queued"

\* The state of a job after its failure has been reported: it is not retried.
FailedState ==
  "failed"

\* AlreadyReported without the guard: every fault is reported.
AlreadyReported_never(j) ==
  FALSE

\* The failure of job j has been reported (a timeout came before).
AlreadyReported(j) ==
  jobs[j].faults > 0

\* The failure callbacks of job j, each invoked in the order of registration,
\* unless the failure of the job has been reported before.
Reported(j) ==
  IF AlreadyReported(j) THEN jobs[j].cbs
  ELSE jobs[j].cbs \o [k \in 1..jobs[j].ncb |-> k]

\* The worker of sheet w pulls its next job and invokes the callable.
JobStart(w) ==
  /\ JobsIn(w, {"queued"}) # {}
  /\ WorkerFree(w)
  /\ jobs' = [jobs EXCEPT ![NextJob(w)].st = "running",
                          ![NextJob(w)].calls = @ + 1]
  /\ UNCHANGED << deny_commands, onready, schedVars, sheetVars, msgVars,
                  loopVars, histVars >>
  /\ UNCHANGED auxVars

\* sync_drop, sync_holds: the callable writes the cell (and the status of the
\* system) to the remote sheet.  The job of check_sheet writes the user's row.
Written(t, job) ==
  IF job.kind = "user" THEN [t EXCEPT !.users = TRUE]
  ELSE [t EXCEPT !.merits = job.cell, !.systems = job.status]

JobWrite(j) ==
  /\ j \in DOMAIN jobs
  /\ jobs[j].st = "running"
  /\ remote' = [remote EXCEPT ![jobs[j].sheet] = Written(@, jobs[j])]
  /\ jobs' = [jobs EXCEPT ![j].st = "written"]
  /\ UNCHANGED << deny_commands, onready, schedVars, store, msgVars, loopVars,
                  histVars >>
  /\ UNCHANGED auxVars

\* The callable returns: the job is dropped silently.
JobReturn(j) ==
  /\ j \in DOMAIN jobs
  /\ jobs[j].st = "written"
  /\ jobs' = [jobs EXCEPT ![j].st = "ok"]
  /\ UNCHANGED << deny_commands, onready, schedVars, sheetVars, msgVars,
                  loopVars, histVars >>
  /\ UNCHANGED auxVars

\* The callable raises, before its write or after its timeout.
JobRaise(j) ==
  /\ j \in DOMAIN jobs
  /\ jobs[j].st \in {"running", "expired"}
  /\ jobs' = [jobs EXCEPT ![j].st = FailedState,
                          ![j].faults = @ + 1,
                          ![j].cbs = Reported(j)]
  /\ UNCHANGED << deny_commands, onready, schedVars, sheetVars, msgVars,
                  loopVars, histVars >>
  /\ UNCHANGED auxVars

\* The timeout of the job passes while the callable runs.
JobTimeout(j) ==
  /\ j \in DOMAIN jobs
  /\ jobs[j].st = "running"
  /\ jobs' = [jobs EXCEPT ![j].st = "expired",
                          ![j].faults = @ + 1,
                          ![j].cbs = Reported(j)]
  /\ UNCHANGED << deny_commands, onready, schedVars, sheetVars, msgVars,
                  loopVars, histVars >>
  /\ UNCHANGED auxVars

\* ----------------------------------------------------------- specifications
\* The scheduler and the resync, shared by the specifications below.
SchedNext ==
  \/ OnReadySetup
  \/ OnReadyDone
  \/ AdminScan
  \/ \E w \in Wrappers : Tick(w)
  \/ \E w \in Wrappers : ScanSystemsUsers(w)
  \/ \E w \in Wrappers : ScanMerits(w)
  \/ \E w \in Wrappers : ResyncEnd(w)

\* The steps of the commands that have been dispatched.
CmdNext ==
  \/ \E c \in Msgs : SendOk(c)
  \/ \E c \in Msgs : SendRaise(c)
  \/ \E c \in Msgs : Wake(c)

\* The resyncs end and the loop runs what is ready: the failure of a scan ends
\* the resync as its success does, and no step of a resync waits for a command.
Fairness ==
  /\ \A w \in Wrappers : WF_vars(ScanSystemsUsers(w))
  /\ \A w \in Wrappers : WF_vars(ScanMerits(w))
  /\ \A w \in Wrappers : WF_vars(ResyncEnd(w))
  /\ \A c \in Msgs : WF_vars(Wake(c))

\* The gate: MaxCmds commands that read the database, under resyncs.
Next ==
  \/ SchedNext
  \/ \E c \in 1..MaxCmds, name \in QueryCmds : Dispatch(c, name)
  \/ CmdNext

Spec ==
  Init /\ [][Next]_vars

\* The release of the gate: one command that reads the database, under resyncs
\* that end and a loop that runs what is ready.
NextLive ==
  \/ SchedNext
  \/ \E name \in QueryCmds : Dispatch(1, name)
  \/ CmdNext

SpecLive ==
  Init /\ [][NextLive]_vars /\ Fairness

\* The order of release: MaxMsgs commands that read the database, under resyncs.
NextFifo ==
  \/ SchedNext
  \/ \E c \in Msgs, name \in QueryCmds : Dispatch(c, name)
  \/ CmdNext

SpecFifo ==
  Init /\ [][NextFifo]_vars

\* The store: MaxMsgs merit commands, under resyncs.
NextStore ==
  \/ SchedNext
  \/ \E c \in Msgs, name \in MeritCmds : Dispatch(c, name)
  \/ CmdNext
  \/ \E c \in Msgs : BgDone(c)

SpecStore ==
  Init /\ [][NextStore]_vars

\* The job queue: MaxMsgs merit commands after the setup of on_ready and the
\* first resync of both sheets have succeeded.
InitJobs ==
  /\ deny_commands = FALSE
  /\ onready = "done"
  /\ wstate = [w \in Wrappers |-> "ACTIVE"]
  /\ scanpc = [w \in Wrappers |-> "idle"]
  /\ running = [w \in Wrappers |-> 0]
  /\ nsched = 0
  /\ overlap = FALSE
  /\ remote = [w \in Wrappers |-> Sheet0(w)]
  /\ store = [w \in Wrappers |-> Sheet0(w)]
  /\ pre = [w \in Wrappers |-> EmptyStore]
  /\ cmd = [c \in Msgs |-> "none"]
  /\ pc = [c \in Msgs |-> "idle"]
  /\ waiters = << >>
  /\ ready = << >>
  /\ susp = << >>
  /\ started = {}
  /\ looped = {}
  /\ jobs = << >>
  /\ pool = "open"
  /\ halt = "none"
  /\ NoCall

NextJobs ==
  \/ \E c \in Msgs, name \in MeritCmds : Dispatch(c, name)
  \/ \E c \in Msgs : SendOk(c)
  \/ \E c \in Msgs : SendRaise(c)
  \/ \E c \in Msgs : BgDone(c)
  \/ \E w \in Wrappers : JobStart(w)
  \/ \E j \in JobIds : JobWrite(j)
  \/ \E j \in JobIds : JobReturn(j)
  \/ \E j \in JobIds : JobRaise(j)
  \/ \E j \in JobIds : JobTimeout(j)

SpecJobs ==
  InitJobs /\ [][NextJobs]_vars

\* ------------------------------------------------------------------- claims
\* The wrappers that gate a command.
GatedBy(name) ==
  {w \in Wrappers : name \in Gates(w)}

\* The handler of c starts in this step.
Starts(c) ==
  c \notin started /\ c \in started'

\* C1: commands delayed by the same wrapper start their handlers in the order
\* in which they were suspended (FIFO release): when the handler of a delayed
\* command starts, no command gated by the same wrappers that was suspended
\* before it is still waiting to start.
C1_FifoRelease ==
  [][\A b \in Msgs :
       (Starts(b) /\ b \in Range(susp)) =>
         \A a \in Range(susp) :
           (GatedBy(cmd[a]) = GatedBy(cmd[b]) /\ a # b) => Pos(susp, b) < Pos(susp, a)]_vars

\* C2: a handler starts only at a moment when no wrapper that gates its command
\* is SYNCING, also after the command has been woken and also for 'User', which
\* both wrappers gate.
C2_StartOnlyWhenEnabled ==
  [][\A c \in Msgs : Starts(c) => ~ disabled(cmd'[c])]_vars

\* A 'User' command found the gate closed again after it had been woken, waited
\* once more and has started its handler.
C2_Witness ==
  \E c \in Msgs : cmd[c] = "User" /\ c \in looped /\ c \in started

\* C3: every resync that starts ends and returns its wrapper to ACTIVE, after a
\* success as after a failure of the scan, and every command suspended in
\* wait_for is resumed.
C3_ResyncEndsAndReleases ==
  /\ \A w \in Wrappers : (wstate[w] = "SYNCING") ~> (wstate[w] = "ACTIVE")
  /\ \A c \in Msgs : (pc[c] = "waiting") ~> (pc[c] = "resume")

\* The resync of a wrapper has failed while a command that the wrapper gates is
\* suspended in wait_for.
C3_Witness ==
  \E w \in Wrappers, c \in Msgs :
    /\ wstate[w] = "SYNCING" /\ scanpc[w] = "failed"
    /\ pc[c] = "waiting" /\ cmd[c] \in Gates(w)

\* C4: at most one resync of a wrapper is in progress at any time.
C4_OneResyncPerWrapper ==
  \A w \in Wrappers : running[w] <= 1

\* A schedule request has reached a SYNCING wrapper, and the resyncs of both
\* wrappers are in progress at the same time.
C4_Witness ==
  overlap /\ \A w \in Wrappers : running[w] = 1 /\ scanpc[w] = "merits"

\* C5: while a Drop or Hold handler is between the gate and its commit, the
\* resync of its sheet does not replace the store.
C5_NoReplaceDuringWrite ==
  [][\A w \in Wrappers :
       (scanpc'[w] # scanpc[w] /\ store'[w] # store[w]) =>
         ~ \E c \in Msgs : pc[c] = "chk_sheet" /\ SheetOf(cmd[c]) = w]_vars

\* C6: during a resync the store holds its pre-resync rows or the complete new
\* rows, and after a failed resync it holds its pre-resync rows.
C6_AtomicReplace ==
  \A w \in Wrappers :
    wstate[w] = "SYNCING" =>
      IF scanpc[w] = "failed" THEN store[w] = pre[w]
      ELSE store[w] = pre[w] \/ store[w] = remote[w]

\* The callbacks of a job, each once, in the order of their registration.
EachOnce(j) ==
  [k \in 1..jobs[j].ncb |-> k]

C8_InvokedAtMostOnce ==
  /\ \A j \in DOMAIN jobs :
       /\ jobs[j].calls <= 1
       /\ jobs[j].faults > 0 => jobs[j].st \in {"expired", "failed"}
  /\ \A w \in Wrappers :
       (JobsIn(w, {"queued"}) # {} /\ JobsIn(w, InProgress) = {})
         => ENABLED JobStart(w)

\* A job has failed after one invocation, and a job of the same sheet submitted
\* after it has run and succeeded.
C8_Witness ==
  \E j, k \in DOMAIN jobs :
    /\ j < k /\ jobs[j].sheet = jobs[k].sheet
    /\ jobs[j].st = "failed" /\ jobs[j].calls = 1
    /\ jobs[k].st = "ok" /\ jobs[k].calls = 1

\* The merit jobs of the Drop commands.
DropJobs ==
  {j \in DOMAIN jobs : jobs[j].kind = "merit" /\ jobs[j].sheet = "hudson_cattle"}

RECURSIVE SumAmount(_)
SumAmount(cs) ==
  IF cs = {} THEN 0
  ELSE LET c == CHOOSE x \in cs : TRUE IN Amount(c) + SumAmount(cs \ {c})

C10_SameSheetInOrder ==
  \A w \in Wrappers :
    /\ Cardinality(JobsIn(w, InProgress)) <= 1
    /\ \A j, k \in JobsIn(w, {"queued", "ok", "failed"} \cup InProgress) :
         (k < j /\ jobs[j].st # "queued") => jobs[k].st \in {"ok", "failed"}

\* A job of each sheet is running at the same time, while a second job of the
\* fort sheet waits in the queue.
C10_Witness ==
  /\ \A w \in Wrappers : \E j \in JobsIn(w, {"running"}) : TRUE
  /\ JobsIn("hudson_cattle", {"queued"}) # {}

\* ----------------------------------------------------------------- shutdown
\* The pool has drained: no job waits and none is in progress.
Drained ==
  \A j \in DOMAIN jobs : jobs[j].st \notin {"queued"} \cup InProgress

\* Admin.halt: deny_commands is set and bot_shutdown is scheduled with
\* asyncio.ensure_future.  Admin commands pass CogBot.ignore_message also while
\* commands are denied.
AdminHalt ==
  /\ onready = "done"
  /\ halt = "none"
  /\ deny_commands' = TRUE
  /\ halt' = "scheduled"
  /\ UNCHANGED << onready, schedVars, sheetVars, msgVars, loopVars, histVars,
                  jobVars, pool, callVars >>

\* bot_shutdown that leaves the pool open and only waits for it.
PoolAfterClose_open ==
  "open"

\* cog.jobs.POOL.close(): the pool accepts no further job.
PoolAfterClose ==
  "closed"

\* bot_shutdown: POOL.close(), then POOL.join(delay) in the executor.
ShutdownClose ==
  /\ halt = "scheduled"
  /\ pool' = PoolAfterClose
  /\ halt' = "join"
  /\ UNCHANGED << deny_commands, onready, schedVars, sheetVars, msgVars,
                  loopVars, histVars, jobVars, callVars >>

\* POOL.join(delay) returns: the pool has drained within the grace period.
JoinDone ==
  /\ halt = "join"
  /\ Drained
  /\ halt' = "logout"
  /\ UNCHANGED << deny_commands, onready, schedVars, sheetVars, msgVars,
                  loopVars, histVars, jobVars, pool, callVars >>

\* POOL.join(delay) raises TimeoutError: the grace period has passed with jobs
\* left, and POOL.stop() terminates the workers and what they had.
JoinTimeout ==
  /\ halt = "join"
  /\ ~ Drained
  /\ pool' = "stopped"
  /\ jobs' = [j \in DOMAIN jobs |->
                IF jobs[j].st \in {"queued"} \cup InProgress
                THEN [jobs[j] EXCEPT !.st = "stopped"] ELSE jobs[j]]
  /\ halt' = "logout"
  /\ UNCHANGED << deny_commands, onready, schedVars, sheetVars, msgVars,
                  loopVars, histVars, callVars >>

\* await bot.logout()
Logout ==
  /\ halt = "logout"
  /\ halt' = "out"
  /\ UNCHANGED << deny_commands, onready, schedVars, sheetVars, msgVars,
                  loopVars, histVars, jobVars, pool, callVars >>

\* The shutdown: MaxMsgs Drop commands and their jobs, and an `admin halt`.
NextHalt ==
  \/ \E c \in Msgs : Dispatch(c, "Drop")
  \/ \E c \in Msgs : SendOk(c)
  \/ \E c \in Msgs : SendRaise(c)
  \/ \E c \in Msgs : BgDone(c)
  \/ \E w \in Wrappers : JobStart(w)
  \/ \E j \in JobIds : JobWrite(j)
  \/ \E j \in JobIds : JobReturn(j)
  \/ \E j \in JobIds : JobRaise(j)
  \/ \E j \in JobIds : JobTimeout(j)
  \/ AdminHalt
  \/ ShutdownClose
  \/ JoinDone
  \/ JoinTimeout
  \/ Logout

SpecHalt ==
  InitJobs /\ [][NextHalt]_vars

\* C11: once bot_shutdown runs, commands are denied and the pool takes no
\* further job; the jobs it has may go on until the pool is stopped, which
\* happens only from the join, with jobs left; and the bot logs out only with
\* the pool drained or stopped.
C11_ShutdownSequence ==
  /\ [](halt # "none" => deny_commands)
  /\ [][halt \notin {"none", "scheduled"} => Len(jobs') = Len(jobs)]_vars
  /\ [][(pool # "stopped" /\ pool' = "stopped") => (halt = "join" /\ ~ Drained)]_vars
  /\ [](halt \in {"logout", "out"} => (Drained /\ pool # "open") \/ pool = "stopped")

\* The bot has logged out with the pool drained and not stopped: a job that was
\* in flight when the pool was closed has finished within the grace period, and
\* a handler that was in flight has had its job refused.
C11_Witness ==
  /\ halt = "out" /\ pool = "closed"
  /\ \E j \in DOMAIN jobs : jobs[j].st = "ok"
  /\ \E c \in Msgs : pc[c] = "raised" /\ c \in started

\* ------------------------------------------------------------ fort_add_drop
\* The rows of the tables 'systems' and 'sheet_users' of the fort sheet, and the
\* amounts a command drops.
SystemIds == 1..MaxSystems
UserIds == 1..MaxUsers
Deltas == {50, 100}

RECURSIVE SumSeq(_)
SumSeq(q) ==
  IF q = << >> THEN 0 ELSE Head(q) + SumSeq(Tail(q))

\* session.query(Drop).filter_by(user_id=suser.id, system_id=system.id): the
\* positions of the matching rows of the table 'merits'.
DropsOf(db, system, suser) ==
  {i \in DOMAIN db.merits :
     db.merits[i].system_id = system /\ db.merits[i].user_id = suser}

\* fort.amount set to the amount of the call.
NewAmount_set(old, amount) ==
  amount

\* fort.amount = fort.amount + amount
NewAmount(old, amount) ==
  old + amount

\* System.cmdr_merits: the total of the drops of the system.
cmdr_merits(db, system) ==
  SumSeq([i \in DOMAIN db.merits |->
            IF db.merits[i].system_id = system THEN db.merits[i].amount ELSE 0])

\* fort_add_drop(session, system=, suser=, amount=): .one() finds the Drop of the
\* pair and the amount is added to it; NoResultFound makes a new Drop; more than
\* one row raises MultipleResultsFound, which is not caught, before any change.
\* Then fort_status grows by the amount and the session is committed.
fort_add_drop(db, system, suser, amount) ==
  LET found == DropsOf(db, system, suser) IN
  IF Cardinality(found) > 1 THEN db
  ELSE [merits |->
          IF found = {}
          THEN Append(db.merits, [system_id |-> system, user_id |-> suser,
                                  amount |-> amount])
          ELSE [i \in DOMAIN db.merits |->
                  IF i \in found
                  THEN [db.merits[i] EXCEPT !.amount = NewAmount(@, amount)]
                  ELSE db.merits[i]],
        fort_status |-> [db.fort_status EXCEPT ![system] = @ + amount]]

\* The database after a scan of a sheet without drops.
InitDrops ==
  /\ BotInit
  /\ inp = << >>
  /\ out = [merits |-> << >>, fort_status |-> [y \in SystemIds |-> 0]]

\* One call of fort_add_drop; inp keeps the calls made, out is the database.
AddDrop ==
  /\ Len(inp) < MaxDrops
  /\ \E system \in SystemIds, suser \in UserIds, amount \in Deltas :
       /\ inp' = Append(inp, [system_id |-> system, user_id |-> suser,
                              amount |-> amount])
       /\ out' = fort_add_drop(out, system, suser, amount)
  /\ UNCHANGED botVars

SpecDrops ==
  InitDrops /\ [][AddDrop]_vars

\* The total of the amounts of the calls made for a system, or for a pair.
Dropped(system, susers) ==
  SumSeq([i \in DOMAIN inp |->
            IF inp[i].system_id = system /\ inp[i].user_id \in susers
            THEN inp[i].amount ELSE 0])

----------------------------------------------------------------------------
\* FortScanner.systems: the system columns of the sheet, read left to right.

MaxCols == 4

\* cog.sheets.Column counts in letters; column_to_index is 0 for "A".
Letters == << "A", "B", "C", "D", "E", "F", "G", "H" >>

ColumnStr(index) == Letters[index + 1]

column_to_index(letter) == (CHOOSE i \in DOMAIN Letters : Letters[i] = letter) - 1

\* str.strip on the cells the grids are made of.
strip(word) ==
  CASE word = " "     -> ""
    [] word = "Frey " -> "Frey"
    [] OTHER          -> word

\* int(word), 0 when int raises ValueError.
parse_int(word) ==
  CASE word = "4910" -> 4910
    [] word = "2222" -> 2222
    [] OTHER         -> 0

NameCells == {"", " ", "Sol", "Frey "}

\* One column of the sheet: rows 1 to 9 of a system, then its name.
SheetColumn(name) ==
  << "0.0", "0.0", "4910", "2688", "2222", "", "", "116.99", " ", name >>

\* The columns the grids are made of: whole ones, one cut off above the name
\* cell, one with no rows, and one with a merit cell below the name.
SheetColumns ==
  {SheetColumn(name) : name \in NameCells}
    \cup {SubSeq(SheetColumn("Sol"), 1, 9), << >>,
          SheetColumn("Sol") \o << "2222" >>}

RECURSIVE Grids(_)
Grids(n) ==
  IF n = 0 THEN {<< >>}
  ELSE Grids(n - 1)
         \cup {Append(g, col) : g \in {h \in Grids(n - 1) : Len(h) = n - 1},
                                col \in SheetColumns}

SheetParsingError == [raised |-> TRUE]

EmptyName_never(lines) ==
  FALSE

\* if lines[9] == '': raise SheetParsingError
EmptyName(lines) ==
  lines[10] = ""

kwargs_fort_system(lines, order, column) ==
  IF Len(lines) < 10 THEN SheetParsingError    \* IndexError
  ELSE IF EmptyName(lines) THEN SheetParsingError
  ELSE [raised |-> FALSE,
        trigger |-> parse_int(lines[3]),
        fort_status |-> parse_int(lines[6]),
        um_status |-> parse_int(lines[7]),
        notes |-> strip(lines[9]),
        name |-> strip(lines[10]),
        sheet_col |-> column,
        sheet_order |-> order]

\* The loop of systems: the first column that raises ends it, and what was
\* found so far is returned.
RECURSIVE systems_loop(_, _, _, _)
systems_loop(cols, order, cell_column, found) ==
  IF cols = << >> THEN found
  ELSE LET kwargs == kwargs_fort_system(Head(cols), order, ColumnStr(cell_column))
       IN  IF kwargs.raised THEN found
           ELSE systems_loop(Tail(cols), order + 1, cell_column + 1,
                             Append(found, kwargs))

systems(cells, system_col) ==
  LET first_system_col == column_to_index(system_col)
  IN  systems_loop(SubSeq(cells, first_system_col + 1, Len(cells)), 1,
                   first_system_col, << >>)

InitSystems ==
  /\ BotInit
  /\ inp \in {[cells |-> g, system_col |-> l, done |-> FALSE] :
                g \in Grids(MaxCols), l \in {"A", "B"}}
  /\ out = << >>

ParseSystems ==
  /\ ~ inp.done
  /\ inp' = [inp EXCEPT !.done = TRUE]
  /\ out' = systems(inp.cells, inp.system_col)
  /\ UNCHANGED botVars

SpecSystems == InitSystems /\ [][ParseSystems]_vars

\* The columns from the system-start column on.
SystemColumns == SubSeq(inp.cells, column_to_index(inp.system_col) + 1, Len(inp.cells))

\* The name cell of column k is empty or missing.
NoName(k) == Len(SystemColumns[k]) < 10 \/ SystemColumns[k][10] = ""

\* C13: when column k, counted from the system-start column, is the first
\* whose name cell is empty or missing, systems returns exactly k - 1 records,
\* in the order of the columns, numbered 1 to k - 1 with consecutive column
\* letters, and nothing for column k.
C13_StopsAtFirstEmptyName ==
  inp.done =>
    \A k \in DOMAIN SystemColumns :
      (NoName(k) /\ \A i \in 1..(k - 1) : ~ NoName(i)) =>
        /\ Len(out) = k - 1
        /\ \A i \in 1..(k - 1) :
             /\ out[i].sheet_order = i
             /\ out[i].sheet_col = ColumnStr(column_to_index(inp.system_col) + i - 1)
             /\ out[i].name = strip(SystemColumns[i][10])

\* Two systems, then a column with an empty name, then one more system.
C13_Witness ==
  /\ inp.done
  /\ inp.system_col = "A"
  /\ Len(inp.cells) = 4
  /\ NoName(3) /\ ~ NoName(4)
  /\ Len(out) = 2
  /\ out[2].sheet_col = "B"

----------------------------------------------------------------------------
\* SheetScanner.scan: systems and users are stored, then the merits are read.

\* The users of the grids: one user, in the row below the names.
SheetUsers == << [id |-> 1, row |-> 11] >>

\* The drops of one system: a user whose row is beyond the column ends the
\* column (IndexError), an empty cell is skipped.
RECURSIVE merits_loop(_, _, _, _)
merits_loop(column, system, users, found) ==
  IF users = << >> THEN found
  ELSE IF Head(users).row > Len(column) THEN found
  ELSE merits_loop(column, system, Tail(users),
         IF column[Head(users).row] = "" THEN found
         ELSE Append(found, [user_id |-> Head(users).id, system_id |-> system,
                             amount |-> parse_int(column[Head(users).row])]))

RECURSIVE merits_systems(_, _, _, _, _)
merits_systems(cells, col_offset, todo, users, found) ==
  IF todo = << >> THEN found
  ELSE merits_systems(cells, col_offset, Tail(todo), users,
         merits_loop(cells[col_offset + Head(todo).sheet_order + 1],
                     Head(todo).sheet_order, users, found))

\* systems[0] is read outside any try: IndexError when nothing was parsed.
merits(cells, found, users) ==
  IF found = << >> THEN [raised |-> "IndexError", drops |-> << >>]
  ELSE [raised |-> "none",
        drops |-> merits_systems(cells, column_to_index(found[1].sheet_col) - 1,
                                 found, users, << >>)]

scan(cells, system_col) ==
  LET found == systems(cells, system_col)
      drops == merits(cells, found, SheetUsers)
  IN  [systems |-> found, users |-> SheetUsers,
       raised |-> drops.raised, drops |-> drops.drops]

InitScan ==
  /\ BotInit
  /\ inp \in {[cells |-> g, system_col |-> l, done |-> FALSE] :
                g \in Grids(MaxCols), l \in {"A", "B"}}
  /\ out = [systems |-> << >>, users |-> << >>, raised |-> "none", drops |-> << >>]

Scan ==
  /\ ~ inp.done
  /\ inp' = [inp EXCEPT !.done = TRUE]
  /\ out' = scan(inp.cells, inp.system_col)
  /\ UNCHANGED botVars

SpecScan == InitScan /\ [][Scan]_vars

\* C14: a SheetParsingError of the first system column is a parsing fault
\* that aborts the scan before anything is stored; it is never taken for the
\* end of the data.
C14_FirstColumnIsFault ==
  (inp.done /\ SystemColumns # << >> /\ NoName(1)) =>
    /\ out.raised = "SheetParsingError"
    /\ out.users = << >>

----------------------------------------------------------------------------
\* subseq_match: is needle a subsequence of line.  Strings are sequences of
\* characters.

MaxNeedle == 3
MaxLine == 3

Chars == {"a", "A", "b"}

RECURSIVE Strings(_)
Strings(n) ==
  IF n = 0 THEN {<< >>}
  ELSE Strings(n - 1)
         \cup {Append(w, ch) : w \in {v \in Strings(n - 1) : Len(v) = n - 1},
                               ch \in Chars}

\* str.lower, character by character.
lower(word) ==
  [i \in DOMAIN word |-> IF word[i] = "A" THEN "a" ELSE word[i]]

NoLongerPossible_eager(needle, n_index, line, l_index) ==
  Len(needle) - n_index >= Len(line) - (l_index + 1)

\* len(needle[n_index:]) > len(line[l_index + 1:])
NoLongerPossible(needle, n_index, line, l_index) ==
  Len(needle) - n_index > Len(line) - (l_index + 1)

\* The two loops of subseq_match, one test of the inner loop per step.  The
\* indices count from 0 as in the code.
RECURSIVE subseq_loop(_, _, _, _, _)
subseq_loop(needle, line, n_index, l_index, matches) ==
  IF n_index = Len(needle) THEN
    IF matches = Len(needle) THEN "True" ELSE "False"
  ELSE IF l_index = Len(line) THEN
    subseq_loop(needle, line, n_index + 1, l_index, matches)
  ELSE IF needle[n_index + 1] = line[l_index + 1] THEN
    subseq_loop(needle, line, n_index + 1, l_index + 1, matches + 1)
  ELSE IF NoLongerPossible(needle, n_index, line, l_index) THEN "NoMatch"
  ELSE subseq_loop(needle, line, n_index, l_index + 1, matches)

subseq_match(needle, line, ignore_case) ==
  IF ignore_case THEN subseq_loop(lower(needle), lower(line), 0, 0, 0)
  ELSE subseq_loop(needle, line, 0, 0, 0)

InitSubseq ==
  /\ BotInit
  /\ inp \in {[needle |-> n, line |-> l, ignore_case |-> ic, done |-> FALSE] :
                n \in Strings(MaxNeedle), l \in Strings(MaxLine), ic \in BOOLEAN}
  /\ out = "none"

Match ==
  /\ ~ inp.done
  /\ inp' = [inp EXCEPT !.done = TRUE]
  /\ out' = subseq_match(inp.needle, inp.line, inp.ignore_case)
  /\ UNCHANGED botVars

SpecSubseq == InitSubseq /\ [][Match]_vars

\* The characters of needle occur in line in order.
IsSubseq(needle, line) ==
  \E f \in [DOMAIN needle -> DOMAIN line] :
    /\ \A i, j \in DOMAIN needle : i < j => f[i] < f[j]
    /\ \A i \in DOMAIN needle : needle[i] = line[f[i]]

\* What the call is asked: a subsequence up to case, or exactly.
Asked ==
  IF inp.ignore_case THEN IsSubseq(lower(inp.needle), lower(inp.line))
  ELSE IsSubseq(inp.needle, inp.line)

\* C15: subseq_match is True exactly when needle is a subsequence of line,
\* whatever the case of the letters by default and letter for letter when
\* ignore_case is False; the early exit never rejects a subsequence.
C15_TrueIffSubsequence ==
  inp.done => (out = "True" <=> Asked)

\* "Ab" is in "aAb" only when the case is ignored: the first letter of line
\* is passed over, and the early exit lets the search go on.
C15_Witness ==
  /\ inp.done
  /\ inp.needle = << "A", "b" >>
  /\ inp.line = << "a", "A", "b" >>
  /\ ~ inp.ignore_case
  /\ out = "True"

\* C16: when needle is not a subsequence of line subseq_match raises NoMatch;
\* it never returns False.
C16_NoMatchNeverFalse ==
  (inp.done /\ ~ Asked) => out = "NoMatch"

----------------------------------------------------------------------------
\* fuzzy_find: the one candidate of stack that needle is a subsequence of.

MaxStack == 2

\* The candidates; they are plain strings, so the projected field of a
\* candidate is the candidate.
Candidates == {<< "a", "b" >>, << "A" >>, << "b", "a" >>}

RECURSIVE Stacks(_)
Stacks(n) ==
  IF n = 0 THEN {<< >>}
  ELSE Stacks(n - 1)
         \cup {Append(st, obj) : st \in {v \in Stacks(n - 1) : Len(v) = n - 1},
                                 obj \in Candidates}

\* The loop over stack: a candidate is kept when subseq_match is True, and
\* passed over when it is False or raises NoMatch.
RECURSIVE fuzzy_matches(_, _, _)
fuzzy_matches(needle, stack, ignore_case) ==
  IF stack = << >> THEN << >>
  ELSE LET rest == fuzzy_matches(needle, Tail(stack), ignore_case)
       IN  IF subseq_match(needle, Head(stack), ignore_case) = "True"
           THEN << Head(stack) >> \o rest
           ELSE rest

\* With no match stack[0] is read to name the class: IndexError on an empty
\* stack.
fuzzy_find(needle, stack, ignore_case) ==
  LET matches == fuzzy_matches(needle, stack, ignore_case)
  IN  IF Len(matches) = 1 THEN
        [raised |-> "none", value |-> matches[1], matches |-> << >>]
      ELSE IF Len(matches) = 0 THEN
        IF stack = << >>
        THEN [raised |-> "IndexError", value |-> << >>, matches |-> << >>]
        ELSE [raised |-> "NoMatch", value |-> << >>, matches |-> << >>]
      ELSE [raised |-> "MoreThanOneMatch", value |-> << >>, matches |-> matches]

InitFuzzy ==
  /\ BotInit
  /\ inp \in {[needle |-> n, stack |-> st, ignore_case |-> ic, done |-> FALSE] :
                n \in Strings(MaxNeedle), st \in Stacks(MaxStack), ic \in BOOLEAN}
  /\ out = [raised |-> "none", value |-> << >>, matches |-> << >>]

Find ==
  /\ ~ inp.done
  /\ inp' = [inp EXCEPT !.done = TRUE]
  /\ out' = fuzzy_find(inp.needle, inp.stack, inp.ignore_case)
  /\ UNCHANGED botVars

SpecFuzzy == InitFuzzy /\ [][Find]_vars

\* The places of stack whose candidate needle is a subsequence of.
Matching ==
  {i \in DOMAIN inp.stack :
     IF inp.ignore_case THEN IsSubseq(lower(inp.needle), lower(inp.stack[i]))
     ELSE IsSubseq(inp.needle, inp.stack[i])}

\* C17: fuzzy_find returns the candidate when exactly one matches, raises
\* NoMatch when none does, the empty stack included, and raises
\* MoreThanOneMatch with all the matching candidates and no others when
\* several do.
C17_OneNoneOrSeveral ==
  inp.done =>
    /\ Cardinality(Matching) = 1 =>
         /\ out.raised = "none"
         /\ \A i \in Matching : out.value = inp.stack[i]
    /\ Matching = {} => out.raised = "NoMatch"
    /\ Cardinality(Matching) > 1 =>
         /\ out.raised = "MoreThanOneMatch"
         /\ Len(out.matches) = Cardinality(Matching)
         /\ \A i \in Matching : \E j \in DOMAIN out.matches :
              out.matches[j] = inp.stack[i]

----------------------------------------------------------------------------
\* fort_find_system: the System of a name, exactly or by fuzzy_find.

\* The System tables: names are unique, whatever the case of the letters.
SystemTables ==
  {st \in Stacks(MaxStack) :
     \A i, j \in DOMAIN st : i # j => lower(st[i]) # lower(st[j])}

\* The comparison of names made by the database.
NameEq(name, system_name) == lower(name) = lower(system_name)

ExactRows_none(table, system_name) ==
  {}

\* session.query(System).filter_by(name=system_name)
ExactRows(table, system_name) ==
  {i \in DOMAIN table : NameEq(table[i], system_name)}

\* one() raises unless there is exactly one row; then the systems from index
\* on are searched by fuzzy_find.
fort_find_system(table, system_name, search_all, current) ==
  LET rows == ExactRows(table, system_name)
      index == IF search_all THEN 0 ELSE current
  IN  IF Cardinality(rows) = 1
      THEN [raised |-> "none", value |-> table[CHOOSE i \in rows : TRUE],
            matches |-> << >>]
      ELSE fuzzy_find(system_name, SubSeq(table, index + 1, Len(table)), TRUE)

InitFindSystem ==
  /\ BotInit
  /\ inp \in {[system_name |-> n, table |-> st, search_all |-> sa,
               current |-> cur, done |-> FALSE] :
                n \in Strings(MaxNeedle), st \in SystemTables, sa \in BOOLEAN,
                cur \in 0..MaxStack}
  /\ inp.current <= Len(inp.table)
  /\ out = [raised |-> "none", value |-> << >>, matches |-> << >>]

FindSystem ==
  /\ ~ inp.done
  /\ inp' = [inp EXCEPT !.done = TRUE]
  /\ out' = fort_find_system(inp.table, inp.system_name, inp.search_all, inp.current)
  /\ UNCHANGED botVars

SpecFindSystem == InitFindSystem /\ [][FindSystem]_vars

\* The systems the fallback searches.
Window ==
  SubSeq(inp.table, (IF inp.search_all THEN 0 ELSE inp.current) + 1, Len(inp.table))

----------------------------------------------------------------------------
\* FortScanner.find_user_row: where the users of the sheet start.

MaxUserCols == 2
MaxRows == 2

cell_anchor == "CMDR Name"

AnchorCells == {"", cell_anchor, "CMDR Name "}

RECURSIVE CellColumns(_)
CellColumns(n) ==
  IF n = 0 THEN {<< >>}
  ELSE CellColumns(n - 1)
         \cup {Append(col, cell) : col \in {v \in CellColumns(n - 1) : Len(v) = n - 1},
                                   cell \in AnchorCells}

RECURSIVE CellGrids(_)
CellGrids(n) ==
  IF n = 0 THEN {<< >>}
  ELSE CellGrids(n - 1)
         \cup {Append(g, col) : g \in {h \in CellGrids(n - 1) : Len(h) = n - 1},
                                col \in CellColumns(MaxRows)}

\* cog.sheets.Column.next and prev, on the index of the column.
ColumnNext(index) == index + 1

ColumnPrev(index) == index - 1

FirstUserRow_anchor(row_count) ==
  row_count + 1

\* return (str(col_count), row_count + 2); row_count is counted from 0.
FirstUserRow(row_count) ==
  row_count + 2

\* The loop over the columns; col_count starts at "A" and is moved on before
\* the column is looked at, and back once the anchor is in the column.
RECURSIVE find_user_loop(_, _, _)
find_user_loop(cells, i, col_count) ==
  IF i > Len(cells) THEN [raised |-> TRUE, user_col |-> "", user_row |-> 0]
  ELSE IF cell_anchor \notin Range(cells[i])
       THEN find_user_loop(cells, i + 1, ColumnNext(col_count))
       ELSE [raised |-> FALSE,
             user_col |-> ColumnStr(ColumnPrev(ColumnNext(col_count))),
             user_row |-> FirstUserRow(
                (CHOOSE r \in DOMAIN cells[i] :
                   /\ cells[i][r] = cell_anchor
                   /\ \A q \in 1..(r - 1) : cells[i][q] # cell_anchor) - 1)]

find_user_row(cells) == find_user_loop(cells, 1, column_to_index("A"))

InitUserRow ==
  /\ BotInit
  /\ inp \in {[cells |-> g, done |-> FALSE] : g \in CellGrids(MaxUserCols)}
  /\ out = [raised |-> FALSE, user_col |-> "", user_row |-> 0]

FindUserRow ==
  /\ ~ inp.done
  /\ inp' = [inp EXCEPT !.done = TRUE]
  /\ out' = find_user_row(inp.cells)
  /\ UNCHANGED botVars

SpecUserRow == InitUserRow /\ [][FindUserRow]_vars

\* The cell in column i and row r, both counted from 1, is the first anchor:
\* no column to the left has one, and no row above it in its column.
FirstAnchor(i, r) ==
  /\ inp.cells[i][r] = cell_anchor
  /\ \A q \in 1..(r - 1) : inp.cells[i][q] # cell_anchor
  /\ \A h \in 1..(i - 1) : cell_anchor \notin Range(inp.cells[h])

NoAnchor == \A i \in DOMAIN inp.cells : cell_anchor \notin Range(inp.cells[i])

\* C19 as stated: the user column is the one to the right of the anchor cell
\* and the first user row the one below it; SheetParsingError without anchor.
C19_RightOfAnchor ==
  inp.done =>
    /\ out.raised <=> NoAnchor
    /\ \A i \in DOMAIN inp.cells : \A r \in DOMAIN inp.cells[i] :
         FirstAnchor(i, r) => /\ out.user_col = ColumnStr(i)
                              /\ out.user_row = r + 1

\* C19, amended: the user column is the column of the anchor cell itself, and
\* the first user row the one below the anchor; SheetParsingError without
\* anchor.
C19_ColumnOfAnchor ==
  inp.done =>
    /\ out.raised <=> NoAnchor
    /\ \A i \in DOMAIN inp.cells : \A r \in DOMAIN inp.cells[i] :
         FirstAnchor(i, r) => /\ out.user_col = ColumnStr(i - 1)
                              /\ out.user_row = r + 1

\* The anchor in the second row of column B: the users start at B3.
C19_Witness ==
  /\ inp.done
  /\ Len(inp.cells) = 2
  /\ cell_anchor \notin Range(inp.cells[1])
  /\ inp.cells[2] = << "CMDR Name ", cell_anchor >>
  /\ out = [raised |-> FALSE, user_col |-> "B", user_row |-> 3]

----------------------------------------------------------------------------
\* System: the supplies a system has and still misses.  fort_override is a
\* float in the code; here it is counted in hundredths.

Triggers == {0, 100, 200}

FortStatuses == {0, 50, 100, 250}

Overrides == {0, 50, 100, 120}

DropLists == {<< >>, << 50 >>, << 50, 100 >>}

Systems ==
  [trigger : Triggers, fort_status : FortStatuses, fort_override : Overrides,
   merits : DropLists, prep : BOOLEAN]

max(a, b) == IF a >= b THEN a ELSE b

\* System.cmdr_merits: the total of the drops of the system.
system_merits(sys) == SumSeq(sys.merits)

\* supplies / self.trigger divides by zero when the trigger is 0.
current_status(sys) ==
  LET supplies == max(sys.fort_status, system_merits(sys))
  IN  IF sys.trigger = 0 THEN [raised |-> "ZeroDivisionError", value |-> 0]
      ELSE IF sys.fort_override * sys.trigger > 100 * supplies
      THEN [raised |-> "none", value |-> (sys.fort_override * sys.trigger) \div 100]
      ELSE [raised |-> "none", value |-> supplies]

\* PrepSystem.is_fortified is False; System.is_fortified looks at
\* fort_override first.
is_fortified(sys) ==
  IF sys.prep THEN [raised |-> "none", value |-> FALSE]
  ELSE IF sys.fort_override >= 100 THEN [raised |-> "none", value |-> TRUE]
  ELSE IF current_status(sys).raised # "none"
  THEN [raised |-> current_status(sys).raised, value |-> FALSE]
  ELSE [raised |-> "none", value |-> current_status(sys).value >= sys.trigger]

missing(sys) ==
  IF current_status(sys).raised # "none" THEN current_status(sys)
  ELSE [raised |-> "none", value |-> max(0, sys.trigger - current_status(sys).value)]

InitSystem ==
  /\ BotInit
  /\ inp \in {[system |-> sys, done |-> FALSE] : sys \in Systems}
  /\ out = [current_status |-> [raised |-> "none", value |-> 0],
            is_fortified |-> [raised |-> "none", value |-> FALSE],
            missing |-> [raised |-> "none", value |-> 0]]

ReadSystem ==
  /\ ~ inp.done
  /\ inp' = [inp EXCEPT !.done = TRUE]
  /\ out' = [current_status |-> current_status(inp.system),
             is_fortified |-> is_fortified(inp.system),
             missing |-> missing(inp.system)]
  /\ UNCHANGED botVars

SpecSystem == InitSystem /\ [][ReadSystem]_vars

\* C20: missing is max(0, trigger - max(fort_status, cmdr_merits)) and never
\* negative; is_fortified holds exactly when current_status >= trigger, and
\* for a system that is no PrepSystem exactly when missing is 0.
C20_MissingAndFortified ==
  inp.done =>
    /\ out.missing.raised = "none"
    /\ out.missing.value =
         max(0, inp.system.trigger
                  - max(inp.system.fort_status, system_merits(inp.system)))
    /\ out.missing.value >= 0
    /\ out.is_fortified.raised = "none"
    /\ out.current_status.raised = "none"
    /\ ~ inp.system.prep =>
         /\ out.is_fortified.value <=> out.current_status.value >= inp.system.trigger
         /\ out.is_fortified.value <=> out.missing.value = 0

----------------------------------------------------------------------------
\* SystemUM: the merits an undermining system misses, and whether it is done.

UMTypes == {"control", "expanding", "opposing"}

Goals == {0, 100, 200}

Progresses == {0, 100, 250}

MapOffsets == {-50, 0, 150}

\* The holds of a system: held and redeemed merits of its users.
HoldLists ==
  {<< >>, << [held |-> 50, redeemed |-> 0] >>,
   << [held |-> 50, redeemed |-> 100], [held |-> 0, redeemed |-> 50] >>}

SystemsUM ==
  [type : UMTypes, goal : Goals, progress_us : Progresses,
   map_offset : MapOffsets, merits : HoldLists]

\* SystemUM.cmdr_merits: the held and redeemed merits of all the holds.
um_cmdr_merits(sys) ==
  SumSeq([i \in DOMAIN sys.merits |-> sys.merits[i].held + sys.merits[i].redeemed])

um_missing(sys) ==
  sys.goal - max(um_cmdr_merits(sys) + sys.map_offset, sys.progress_us)

expansion_undermined_base(sys) ==
  um_missing(sys) <= 0

\* UMExpand.is_undermined, inherited by UMOppose: return False
expansion_undermined(sys) ==
  FALSE

um_is_undermined(sys) ==
  IF sys.type = "control" THEN um_missing(sys) <= 0
  ELSE expansion_undermined(sys)

InitSystemUM ==
  /\ BotInit
  /\ inp \in {[system |-> sys, done |-> FALSE] : sys \in SystemsUM}
  /\ out = [missing |-> 0, is_undermined |-> FALSE]

ReadSystemUM ==
  /\ ~ inp.done
  /\ inp' = [inp EXCEPT !.done = TRUE]
  /\ out' = [missing |-> um_missing(inp.system),
             is_undermined |-> um_is_undermined(inp.system)]
  /\ UNCHANGED botVars

SpecSystemUM == InitSystemUM /\ [][ReadSystemUM]_vars

\* The merits of the holds, added up one by one.
HeldAndRedeemed ==
  SumSeq([i \in DOMAIN inp.system.merits |-> inp.system.merits[i].held])
    + SumSeq([i \in DOMAIN inp.system.merits |-> inp.system.merits[i].redeemed])

\* C21: missing of a SystemUM is goal - max(cmdr_merits + map_offset,
\* progress_us); a control system is undermined exactly when missing <= 0, an
\* expansion or opposition system never is.
C21_MissingAndUndermined ==
  inp.done =>
    /\ out.missing =
         LET ours == HeldAndRedeemed + inp.system.map_offset
         IN  IF ours >= inp.system.progress_us
             THEN inp.system.goal - ours
             ELSE inp.system.goal - inp.system.progress_us
    /\ inp.system.type = "control" => (out.is_undermined <=> out.missing <= 0)
    /\ inp.system.type # "control" => ~ out.is_undermined

\* An expansion whose merits are beyond the goal is still not undermined.
C21_Witness ==
  /\ inp.done
  /\ inp.system.type = "expanding"
  /\ inp.system.goal = 100
  /\ Len(inp.system.merits) = 2
  /\ out.missing < 0
  /\ ~ out.is_undermined

----------------------------------------------------------------------------
\* parse_int and parse_float on every kind of cell.  A cell is a string or a
\* number; floats are counted in tenths.

StrCell(text) == [type |-> "str", text |-> text, num |-> 0]

IntCell(num) == [type |-> "int", text |-> "", num |-> num]

FloatCell(tenths) == [type |-> "float", text |-> "", num |-> tenths]

CellValues ==
  {StrCell(t) : t \in {"", " ", "abc", "4910", " 7 ", "-3", "1.5", "1,000", "50%"}}
    \cup {IntCell(0), IntCell(4910), FloatCell(15), FloatCell(-25)}

Returned(value) == [raised |-> "none", value |-> value]

Raised(exc) == [raised |-> exc, value |-> 0]

\* int(word): the integer a string spells, blanks around it allowed, and the
\* whole part of a number; ValueError for any other string.
py_int(word) ==
  IF word.type = "int" THEN Returned(word.num)
  ELSE IF word.type = "float"
  THEN Returned(IF word.num >= 0 THEN word.num \div 10 ELSE - ((- word.num) \div 10))
  ELSE CASE word.text = "4910" -> Returned(4910)
         [] word.text = " 7 "  -> Returned(7)
         [] word.text = "-3"   -> Returned(-3)
         [] OTHER              -> Raised("ValueError")

\* float(word), in tenths: as int, and strings with a decimal point too.
py_float(word) ==
  IF word.type = "int" THEN Returned(10 * word.num)
  ELSE IF word.type = "float" THEN Returned(word.num)
  ELSE CASE word.text = "4910" -> Returned(49100)
         [] word.text = " 7 "  -> Returned(70)
         [] word.text = "-3"   -> Returned(-30)
         [] word.text = "1.5"  -> Returned(15)
         [] OTHER              -> Raised("ValueError")

Caught_nothing(exc) ==
  FALSE

\* except ValueError:
Caught(exc) ==
  exc = "ValueError"

\* try: return int(word) / except ValueError: return 0
parse_int_cell(word) ==
  IF Caught(py_int(word).raised) THEN Returned(0) ELSE py_int(word)

\* try: return float(word) / except ValueError: return 0.0
parse_float_cell(word) ==
  IF Caught(py_float(word).raised) THEN Returned(0) ELSE py_float(word)

\* A system column with a name, its two manual cells (5 and 6) as given: the
\* column parses unless one of the two raises.
override_column(fort, um) ==
  IF parse_int_cell(fort).raised # "none" \/ parse_int_cell(um).raised # "none"
  THEN SheetParsingError
  ELSE kwargs_fort_system(SheetColumn("Sol"), 1, "F")

InitParse ==
  /\ BotInit
  /\ inp \in {[word |-> w, other |-> o, done |-> FALSE] :
                w \in CellValues, o \in CellValues}
  /\ out = [int |-> Returned(0), float |-> Returned(0), column |-> SheetParsingError]

ParseCells ==
  /\ ~ inp.done
  /\ inp' = [inp EXCEPT !.done = TRUE]
  /\ out' = [int |-> parse_int_cell(inp.word),
             float |-> parse_float_cell(inp.word),
             column |-> override_column(inp.word, inp.other)]
  /\ UNCHANGED botVars

SpecParse == InitParse /\ [][ParseCells]_vars

\* The strings that spell no number at all.
NotNumeric == {"", " ", "abc", "1,000", "50%"}

\* C22: parse_int and parse_float raise for no cell; an empty or non-numeric
\* cell gives 0, and a system column with a name parses whatever its manual
\* cells hold.
C22_ParsingNeverRaises ==
  inp.done =>
    /\ out.int.raised = "none"
    /\ out.float.raised = "none"
    /\ (inp.word.type = "str" /\ inp.word.text \in NotNumeric) =>
         (out.int.value = 0 /\ out.float.value = 0)
    /\ ~ out.column.raised

\* A blank manual fort cell next to a non-numeric um cell: both are 0 and the
\* column is parsed.
C22_Witness ==
  /\ inp.done
  /\ inp.word = StrCell("")
  /\ inp.other = StrCell("abc")
  /\ out.int = Returned(0)
  /\ out.float = Returned(0)
  /\ out.column.name = "Sol"

----------------------------------------------------------------------------
\* The fort targets: fort_find_current_index, fort_get_targets and
\* fort_get_next_targets.  The systems are in sheet order.

MaxTargets == 3
MaxCount == 2

TargetNames == << "Frey", "Nurundere", "LHS 3749", "Sol", "Dongkum" >>

\* The n-th system of the sheet, fortified or not, to skip or not.
TargetSystems(n) ==
  [name : {TargetNames[n]}, fortified : BOOLEAN, skip : BOOLEAN]

Othimes ==
  [name : {"Othime"}, fortified : BOOLEAN, skip : {FALSE}]

RECURSIVE TargetLists(_)
TargetLists(n) ==
  IF n = 0 THEN {<< >>}
  ELSE TargetLists(n - 1)
         \cup {Append(l, sys) : l \in {v \in TargetLists(n - 1) : Len(v) = n - 1},
                                sys \in TargetSystems(n)}

\* The System tables: up to MaxTargets systems and Othime, anywhere among them.
TargetTables ==
  UNION {{SubSeq(l, 1, at) \o << oth >> \o SubSeq(l, at + 1, Len(l)) :
            at \in 0..Len(l), oth \in Othimes} : l \in TargetLists(MaxTargets)}

\* fort_get_systems(session, not_othime=True)
not_othime(table) == SelectSeq(table, LAMBDA sys : sys.name # "Othime")

\* fort_get_othime
get_othime(table) == table[CHOOSE i \in DOMAIN table : table[i].name = "Othime"]

\* The function falls off the end of its loop and returns None.
NoIndex == -1

\* The index, counted from 0, of the first system that is not passed over.
fort_find_current_index(table) ==
  LET list == not_othime(table)
      open == {i \in DOMAIN list : ~ (list[i].fortified \/ list[i].skip)}
  IN  IF open = {} THEN NoIndex
      ELSE (CHOOSE i \in open : \A j \in open : i <= j) - 1

\* systems[current] with current None is a TypeError.
fort_get_targets(table, current) ==
  LET list == not_othime(table)
  IN  IF current = NoIndex THEN Raised("TypeError")
      ELSE IF current >= Len(list) THEN Raised("IndexError")
      ELSE Returned(<< list[current + 1] >>
                      \o (IF ~ get_othime(table).fortified
                          THEN << get_othime(table) >> ELSE << >>))

\* The loop of fort_get_next_targets: count goes down by one with every
\* target and the loop ends when it is 0.
RECURSIVE next_targets_loop(_, _, _)
next_targets_loop(list, count, targets) ==
  IF list = << >> THEN targets
  ELSE IF Head(list).fortified \/ Head(list).skip
  THEN next_targets_loop(Tail(list), count, targets)
  ELSE IF count - 1 = 0 THEN Append(targets, Head(list))
  ELSE next_targets_loop(Tail(list), count - 1, Append(targets, Head(list)))

\* start = current + 1 with current None is a TypeError.
fort_get_next_targets(table, current, count) ==
  LET list == not_othime(table)
  IN  IF current = NoIndex THEN Raised("TypeError")
      ELSE Returned(next_targets_loop(SubSeq(list, current + 2, Len(list)),
                                      count, << >>))

InitTargets ==
  /\ BotInit
  /\ inp \in {[table |-> t, count |-> n, done |-> FALSE] :
                t \in TargetTables, n \in 0..MaxCount}
  /\ out = [current |-> NoIndex, targets |-> Returned(<< >>), next |-> Returned(<< >>)]

GetTargets ==
  /\ ~ inp.done
  /\ inp' = [inp EXCEPT !.done = TRUE]
  /\ out' = [current |-> fort_find_current_index(inp.table),
             targets |-> fort_get_targets(inp.table, fort_find_current_index(inp.table)),
             next |-> fort_get_next_targets(inp.table,
                        fort_find_current_index(inp.table), inp.count)]
  /\ UNCHANGED botVars

SpecTargets == InitTargets /\ [][GetTargets]_vars

\* The systems but Othime, and the places of those still to fortify.
Candidates23 == not_othime(inp.table)

OpenAt == {i \in DOMAIN Candidates23 :
             ~ Candidates23[i].fortified /\ ~ Candidates23[i].skip}

\* The open systems after place i, in sheet order.
OpenAfter(i) ==
  SelectSeq(SubSeq(Candidates23, i + 1, Len(Candidates23)),
            LAMBDA sys : ~ sys.fortified /\ ~ sys.skip)

\* C23: in every store the current target is the first system, Othime aside,
\* that is neither fortified nor skipped; the target list is that system, then
\* Othime exactly when Othime is not fortified; the next targets are the first
\* count open systems after the current one, fewer when not as many are left.
C23_TargetsInSheetOrder ==
  inp.done =>
    /\ out.targets.raised = "none"
    /\ out.next.raised = "none"
    /\ \A i \in OpenAt :
         (\A j \in OpenAt : i <= j) =>
           /\ out.current = i - 1
           /\ out.targets.value[1] = Candidates23[i]
           /\ Len(out.targets.value) = IF get_othime(inp.table).fortified THEN 1 ELSE 2
           /\ ~ get_othime(inp.table).fortified =>
                out.targets.value[2] = get_othime(inp.table)
           /\ out.next.value =
                SubSeq(OpenAfter(i), 1,
                       IF inp.count <= Len(OpenAfter(i)) THEN inp.count
                       ELSE Len(OpenAfter(i)))

----------------------------------------------------------------------------
\* add_sheet_user and check_sheet_user: a new user gets a row of the sheet.

MaxSheetUsers == 2
MaxAdds == 2

ETypes == {"cattle", "um"}

\* The first user row of the sheets.
user_row == 11

ScannedNames ==
  [cattle |-> << << "b", "a" >>, << "b", "b" >>, << "b", "a", "b" >> >>,
   um     |-> << << "a", "b" >>, << "a", "a" >>, << "a", "b", "a" >> >>]

\* The users a scan of a sheet stores: one row after the other.
Scanned(type, n) ==
  [i \in 1..n |-> [name |-> ScannedNames[type][i], row |-> user_row + i - 1,
                   type |-> type]]

AddedNames == {<< "A" >>, << "b", "b" >>, << "A", "b" >>}

\* query.filter(...) is called and its result dropped: nothing is filtered.
FilterApplied(users, type) ==
  users

\* get_sheet_users(session, faction=faction, type=type)
get_sheet_users(users, type) ==
  FilterApplied(users, type)

\* next_row is one past the row of the last user returned.
add_sheet_user(users, name, type) ==
  LET found == get_sheet_users(users, type)
  IN  Append(users, [name |-> name, row |-> found[Len(found)].row + 1,
                     type |-> type])

\* The names of the users, for fuzzy_find.
NamesOf(users) == [i \in DOMAIN users |-> users[i].name]

\* filter_by(name=name).one(), and fuzzy_find when it raises.
get_sheet_user_by_name(users, name) ==
  LET rows == {i \in DOMAIN users : NameEq(users[i].name, name)}
  IN  IF Cardinality(rows) = 1
      THEN [raised |-> "none", value |-> users[CHOOSE i \in rows : TRUE].name,
            matches |-> << >>]
      ELSE fuzzy_find(name, NamesOf(users), TRUE)

\* The users and the calls of the hook after check_sheet_user; only NoMatch is
\* caught, and the user is then added to the cattle sheet.
check_sheet_user(db, pref_name) ==
  IF get_sheet_user_by_name(db.users, pref_name).raised = "NoMatch"
  THEN [db EXCEPT !.users = add_sheet_user(db.users, pref_name, "cattle"),
                  !.hooks = Append(db.hooks, pref_name)]
  ELSE db

InitSheetUsers ==
  /\ BotInit
  /\ inp = << >>
  /\ \E n \in 1..MaxSheetUsers, m \in 0..MaxSheetUsers, first \in ETypes :
       out = [users |-> IF first = "cattle"
                        THEN Scanned("cattle", n) \o Scanned("um", m)
                        ELSE Scanned("um", m) \o Scanned("cattle", n),
              scanned |-> n + m,
              hooks |-> << >>]

AddSheetUser ==
  /\ Len(inp) < MaxAdds
  /\ \E name \in AddedNames, type \in ETypes :
       /\ inp' = Append(inp, [call |-> "add_sheet_user", name |-> name, type |-> type])
       /\ out' = [out EXCEPT !.users = add_sheet_user(out.users, name, type)]
  /\ UNCHANGED botVars

CheckSheetUser ==
  /\ Len(inp) < MaxAdds
  /\ \E name \in AddedNames :
       /\ inp' = Append(inp, [call |-> "check_sheet_user", name |-> name,
                              type |-> "cattle"])
       /\ out' = check_sheet_user(out, name)
  /\ UNCHANGED botVars

NextSheetUsers == AddSheetUser \/ CheckSheetUser

SpecSheetUsers == InitSheetUsers /\ [][NextSheetUsers]_vars

\* The highest row of the users of a sheet among the first n users.
LastRow(type, n) ==
  LET rows == {out.users[i].row : i \in {j \in 1..n : out.users[j].type = type}}
  IN  IF rows = {} THEN user_row - 1
      ELSE CHOOSE r \in rows : \A q \in rows : q <= r

\* C24: every added user has the row after the last user row of its sheet, no
\* two users of a sheet share a row, and the hook was called once for every
\* user check_sheet_user created and for no other.
C24_RowAfterLastOfSheet ==
  /\ \A i \in DOMAIN out.users :
       i > out.scanned =>
         out.users[i].row = LastRow(out.users[i].type, i - 1) + 1
  /\ \A i, j \in DOMAIN out.users :
       (i # j /\ out.users[i].type = out.users[j].type) =>
         out.users[i].row # out.users[j].row
  /\ Len(out.hooks) <= Len(out.users) - out.scanned

----------------------------------------------------------------------------
\* CogBot.on_ready fired more than once, and ignore_message.  Here out holds
\* cog.actions.SCANNERS and what the setup has done, and the position of every
\* on_ready coroutine.

MaxReady == 2

ReadyIds == 1..MaxReady

InitReady ==
  /\ BotInit
  /\ inp = "none"
  /\ out = [SCANNERS |-> FALSE, setups |-> 0, registered |-> {},
            scheduled |-> FALSE, sub |-> FALSE, pcs |-> << >>]

SetupNeeded_always(o) ==
  TRUE

\* if not cog.actions.SCANNERS:
SetupNeeded(o) ==
  ~ o.SCANNERS

\* on_ready up to its first await: with SCANNERS empty the scanners are
\* initialised, the wrappers registered, all sheets scheduled and the coroutine
\* sleeps; otherwise it is done at once.
OnReady ==
  /\ Len(out.pcs) < MaxReady
  /\ IF SetupNeeded(out)
     THEN /\ out' = [out EXCEPT !.SCANNERS = TRUE,
                                !.setups = @ + 1,
                                !.registered = Wrappers,
                                !.scheduled = TRUE,
                                !.pcs = Append(@, "sleep")]
          /\ onready' = "sleep"
          /\ schedule_all
     ELSE /\ out' = [out EXCEPT !.pcs = Append(@, "done")]
          /\ UNCHANGED << onready, wstate, scanpc, running, pre, overlap >>
  /\ UNCHANGED << deny_commands, nsched, sheetVars, msgVars, loopVars, histVars,
                  jobVars, pool, halt, inp >>

\* The first sleep is over and connect_sub has returned.
OnReadyConnect(i) ==
  /\ i \in DOMAIN out.pcs
  /\ out.pcs[i] = "sleep"
  /\ out' = [out EXCEPT !.sub = TRUE, !.pcs[i] = "connected"]
  /\ UNCHANGED << botVars, inp >>

\* The second sleep is over: self.deny_commands = False
OnReadyFinish(i) ==
  /\ i \in DOMAIN out.pcs
  /\ out.pcs[i] = "connected"
  /\ out' = [out EXCEPT !.pcs[i] = "done"]
  /\ deny_commands' = FALSE
  /\ onready' = "done"
  /\ UNCHANGED << schedVars, sheetVars, msgVars, loopVars, histVars, jobVars,
                  pool, halt, inp >>

\* ignore_message: a command that is not an admin command is answered with the
\* admin mode notice and dropped while deny_commands is set.
Ignore(c) ==
  /\ deny_commands
  /\ pc[c] = "idle"
  /\ \A d \in Msgs : d < c => pc[d] # "idle"
  /\ pc' = [pc EXCEPT ![c] = "ignored"]
  /\ UNCHANGED << deny_commands, onready, schedVars, sheetVars, cmd, loopVars,
                  histVars, jobVars, auxVars >>

NextReady ==
  \/ OnReady
  \/ \E i \in ReadyIds : OnReadyConnect(i)
  \/ \E i \in ReadyIds : OnReadyFinish(i)
  \/ \E c \in Msgs : Ignore(c)
  \/ \E c \in Msgs : Dispatch(c, "Fort")
  \/ \E w \in Wrappers : ScanSystemsUsers(w)
  \/ \E w \in Wrappers : ScanMerits(w)
  \/ \E w \in Wrappers : ResyncEnd(w)
  \/ CmdNext

SpecReady == InitReady /\ [][NextReady]_vars

----------------------------------------------------------------------------
\* CogBot.send_message: up to four attempts to deliver one message.  Here inp
\* holds, for every call, its position, the local attempts, and the number of
\* deliveries tried and of those that raised discord.HTTPException.

attempts == 4

InitSend ==
  /\ BotInit
  /\ inp = [c \in Msgs |-> [at |-> "idle", attempts |-> 0, tries |-> 0, fails |-> 0]]
  /\ out = "none"

\* send_message is called: attempts = 4, and the loop is entered.
SendCall(c) ==
  /\ inp[c].at = "idle"
  /\ inp' = [inp EXCEPT ![c].at = "try", ![c].attempts = attempts]
  /\ UNCHANGED << botVars, out >>

\* return await super().send_message(...)
AttemptOk(c) ==
  /\ inp[c].at = "try"
  /\ inp' = [inp EXCEPT ![c].at = "returned", ![c].tries = @ + 1]
  /\ UNCHANGED << botVars, out >>

\* The delivery raises discord.HTTPException: the call sleeps.
AttemptHTTPException(c) ==
  /\ inp[c].at = "try"
  /\ inp' = [inp EXCEPT ![c].at = "sleep", ![c].tries = @ + 1, ![c].fails = @ + 1]
  /\ UNCHANGED << botVars, out >>

\* The delivery raises something else, which no except clause catches.
AttemptOtherException(c) ==
  /\ inp[c].at = "try"
  /\ inp' = [inp EXCEPT ![c].at = "other", ![c].tries = @ + 1]
  /\ UNCHANGED << botVars, out >>

LastAttempt_never(left) ==
  FALSE

\* if not attempts:
LastAttempt(left) ==
  left = 0

\* After the sleep: attempts -= 1, and the exception is raised again when no
\* attempt is left; `while attempts` would end the loop and return None.
Slept(c) ==
  /\ inp[c].at = "sleep"
  /\ inp' = [inp EXCEPT ![c].attempts = @ - 1,
                        ![c].at = IF LastAttempt(inp[c].attempts - 1) THEN "raised"
                                  ELSE IF inp[c].attempts - 1 = 0 THEN "none"
                                  ELSE "try"]
  /\ UNCHANGED << botVars, out >>

NextSend ==
  \/ \E c \in Msgs : SendCall(c)
  \/ \E c \in Msgs : AttemptOk(c)
  \/ \E c \in Msgs : AttemptHTTPException(c)
  \/ \E c \in Msgs : AttemptOtherException(c)
  \/ \E c \in Msgs : Slept(c)

\* Every delivery returns or raises, and every sleep ends.
FairnessSend ==
  \A c \in Msgs :
    /\ WF_vars(AttemptOk(c) \/ AttemptHTTPException(c) \/ AttemptOtherException(c))
    /\ WF_vars(Slept(c))

SpecSend == InitSend /\ [][NextSend]_vars /\ FairnessSend

SendOver == {"returned", "raised", "other", "none"}

\* C26: a call of send_message ends, after at most 4 deliveries; it returns
\* the first delivery that succeeds, tries again only after a
\* discord.HTTPException, and raises it again exactly when the 4th delivery
\* in a row has failed.
C26_AtMostFourAttempts ==
  /\ \A c \in Msgs : (inp[c].at = "try") ~> (inp[c].at \in SendOver)
  /\ [](\A c \in Msgs :
          /\ inp[c].tries <= 4
          /\ inp[c].at # "none"
          /\ inp[c].at \in {"try", "idle"} => inp[c].fails = inp[c].tries
          /\ inp[c].at \in {"returned", "other"} => inp[c].fails = inp[c].tries - 1
          /\ inp[c].at = "raised" <=> (inp[c].fails = 4 /\ inp[c].attempts = 0))

\* One call has raised after four failed deliveries, another has returned the
\* delivery that succeeded after two failed ones.
C26_Witness ==
  /\ inp[1].at = "raised" /\ inp[1].tries = 4
  /\ inp[2].at = "returned" /\ inp[2].tries = 3 /\ inp[2].fails = 2

----------------------------------------------------------------------------
\* The handlers that change a sheet: the order of the local change, the
\* commit, the registration of the failure callback and background_start.

Mutators == {"Drop", "FortSet", "Hold", "HoldSet", "UMSet", "UserName"}

\* What execute does, in the order of its statements.  um_add_hold and
\* fort_add_drop commit what they change; Hold.set_hold with --set changes the
\* system and starts the job that writes it before execute commits.
Program(kind) ==
  CASE kind = "Drop"     -> << "change", "commit", "change", "commit", "callback", "submit" >>
    [] kind = "FortSet"  -> << "change", "commit", "callback", "submit" >>
    [] kind = "Hold"     -> << "change", "commit", "commit", "callback", "submit" >>
    [] kind = "HoldSet"  -> << "change", "commit", "change", "callback", "submit",
                               "commit", "callback", "submit" >>
    [] kind = "UMSet"    -> << "change", "commit", "callback", "submit" >>
    [] kind = "UserName" -> << "change", "commit", "callback", "submit" >>

InitHandlers ==
  /\ BotInit
  /\ inp \in [Msgs -> [kind : Mutators, at : {1}, state : {"running"},
                       dirty : {FALSE}, callback : {FALSE}, queued : {<< >>}]]
  /\ out = "none"

\* The next statement of a handler.  A job is queued with what was true when
\* it was submitted: its callback registered, the session dirty.
statement(h) ==
  LET op == Program(h.kind)[h.at]
      over == h.at = Len(Program(h.kind))
  IN  [h EXCEPT !.at = IF over THEN @ ELSE @ + 1,
                !.state = IF over THEN "done" ELSE "running",
                !.dirty = IF op = "change" THEN TRUE
                          ELSE IF op = "commit" THEN FALSE ELSE @,
                !.callback = IF op = "callback" THEN TRUE
                             ELSE IF op = "submit" THEN FALSE ELSE @,
                !.queued = IF op = "submit"
                           THEN Append(@, [callback |-> h.callback,
                                           dirty |-> h.dirty])
                           ELSE @]

HandlerStep(c) ==
  /\ inp[c].state = "running"
  /\ inp' = [inp EXCEPT ![c] = statement(inp[c])]
  /\ UNCHANGED << botVars, out >>

\* The handler raises at its next statement and is over; what was not
\* committed stays so.
HandlerRaise(c) ==
  /\ inp[c].state = "running"
  /\ inp' = [inp EXCEPT ![c].state = "raised"]
  /\ UNCHANGED << botVars, out >>

NextHandlers ==
  \/ \E c \in Msgs : HandlerStep(c)
  \/ \E c \in Msgs : HandlerRaise(c)

SpecHandlers == InitHandlers /\ [][NextHandlers]_vars

\* C27: every job a handler submits was submitted after the local change was
\* committed and with its failure callback registered, so a handler that
\* raises with a change not committed has no job queued for it.
C27_SubmitAfterCommit ==
  \A c \in Msgs :
    /\ \A j \in DOMAIN inp[c].queued :
         inp[c].queued[j].callback /\ ~ inp[c].queued[j].dirty
    /\ (inp[c].state = "raised" /\ inp[c].dirty) => inp[c].queued = << >>

----------------------------------------------------------------------------
\* System.set_status and SystemUM.set_status.  new_status is "a" or "a:b";
\* here it is the sequence of its components.

Components == {"4910", " 7 ", "-3", "abc", ""}

Statuses ==
  {<< a >> : a \in Components} \cup {<< a, b >> : a \in Components, b \in Components}

\* The fields before the call.
Fields0 == [fort_status |-> 10, um_status |-> 20, progress_us |-> 30, progress_them |-> 40]

\* System.set_status: the components are taken in turn, fort_status first;
\* each is checked and then stored.
system_set_status(sys, vals) ==
  LET first == py_int(StrCell(vals[1]))
      after == [sys EXCEPT !.fort_status = first.value]
  IN  IF first.raised # "none" THEN [raised |-> first.raised, system |-> sys]
      ELSE IF first.value < 0 THEN [raised |-> "InvalidCommandArgs", system |-> sys]
      ELSE IF Len(vals) = 1 THEN [raised |-> "none", system |-> after]
      ELSE LET second == py_int(StrCell(vals[2]))
           IN  IF second.raised # "none"
               THEN [raised |-> second.raised, system |-> after]
               ELSE IF second.value < 0
               THEN [raised |-> "InvalidCommandArgs", system |-> after]
               ELSE [raised |-> "none",
                     system |-> [after EXCEPT !.um_status = second.value]]

\* SystemUM.set_status: progress_them is checked and stored first, then
\* progress_us.  progress_them is kept in tenths of a percent.
um_set_status(sys, vals) ==
  LET them == py_float(StrCell(vals[Len(vals)]))
      after == IF Len(vals) = 2 THEN [sys EXCEPT !.progress_them = them.value]
               ELSE sys
      us == py_int(StrCell(vals[1]))
  IN  IF Len(vals) = 2 /\ them.raised # "none"
      THEN [raised |-> them.raised, system |-> sys]
      ELSE IF Len(vals) = 2 /\ them.value < 0
      THEN [raised |-> "InvalidCommandArgs", system |-> sys]
      ELSE IF us.raised # "none" THEN [raised |-> us.raised, system |-> after]
      ELSE IF us.value < 0 THEN [raised |-> "InvalidCommandArgs", system |-> after]
      ELSE [raised |-> "none", system |-> [after EXCEPT !.progress_us = us.value]]

InitSetStatus ==
  /\ BotInit
  /\ inp \in {[cls |-> k, new_status |-> v, done |-> FALSE] :
                k \in {"System", "SystemUM"}, v \in Statuses}
  /\ out = [raised |-> "none", system |-> Fields0]

SetStatus ==
  /\ ~ inp.done
  /\ inp' = [inp EXCEPT !.done = TRUE]
  /\ out' = IF inp.cls = "System" THEN system_set_status(Fields0, inp.new_status)
            ELSE um_set_status(Fields0, inp.new_status)
  /\ UNCHANGED botVars

SpecSetStatus == InitSetStatus /\ [][SetStatus]_vars

\* C28: when set_status raises, no field of the system has changed.
C28_AllOrNothing ==
  (inp.done /\ out.raised # "none") => out.system = Fields0

----------------------------------------------------------------------------
\* The derived properties of a System built from the cells of a sheet column.

TriggerCells == {"", "abc", "4910", "2222"}

\* The part of kwargs_fort_system the properties read: trigger and
\* fort_status go through parse_int.
parsed_system(trigger, fort, override, drops, prep) ==
  [trigger |-> parse_int(trigger), fort_status |-> parse_int(fort),
   fort_override |-> override, merits |-> drops, prep |-> prep]

\* System.completion, in tenths of a percent: current_status is read inside
\* the try, so its ZeroDivisionError is caught as well.
completion(sys) ==
  IF current_status(sys).raised = "ZeroDivisionError" \/ sys.trigger = 0
  THEN Returned(0)
  ELSE IF current_status(sys).raised # "none" THEN current_status(sys)
  ELSE Returned((2000 * current_status(sys).value + sys.trigger) \div (2 * sys.trigger))

InitDerived ==
  /\ BotInit
  /\ inp \in {[trigger |-> t, fort_status |-> f, fort_override |-> o, merits |-> d,
               prep |-> p, done |-> FALSE] :
                t \in TriggerCells, f \in TriggerCells, o \in Overrides,
                d \in DropLists, p \in BOOLEAN}
  /\ out = [current_status |-> Returned(0), is_fortified |-> Returned(FALSE),
            missing |-> Returned(0), completion |-> Returned(0)]

ReadDerived ==
  /\ ~ inp.done
  /\ inp' = [inp EXCEPT !.done = TRUE]
  /\ out' = [current_status |-> current_status(parsed_system(inp.trigger,
                inp.fort_status, inp.fort_override, inp.merits, inp.prep)),
             is_fortified |-> is_fortified(parsed_system(inp.trigger,
                inp.fort_status, inp.fort_override, inp.merits, inp.prep)),
             missing |-> missing(parsed_system(inp.trigger,
                inp.fort_status, inp.fort_override, inp.merits, inp.prep)),
             completion |-> completion(parsed_system(inp.trigger,
                inp.fort_status, inp.fort_override, inp.merits, inp.prep))]
  /\ UNCHANGED botVars

SpecDerived == InitDerived /\ [][ReadDerived]_vars

\* C29: for every system the sheet parser can produce, a blank or
\* non-numeric trigger cell included, none of current_status, missing,
\* is_fortified and completion raises.
C29_DerivedNeverRaise ==
  inp.done =>
    /\ out.current_status.raised = "none"
    /\ out.missing.raised = "none"
    /\ out.is_fortified.raised = "none"
    /\ out.completion.raised = "none"

----------------------------------------------------------------------------
\* check_mentions around Drop.execute and Hold.execute.  inp is the message
\* c and the position of its processing; msg.mentions is the number of members
\* mentioned, msg.author is "author" or "mentioned".

MaxMentions == 2

Members == {"author", "mentioned"}

InitMentions ==
  /\ BotInit
  /\ inp \in {[kind |-> k, mentioned |-> n, mentions |-> n, bots |-> b,
                        author |-> "author", at |-> "new", depth |-> 0,
                        passed |-> 0, resubmitted |-> 0, body |-> 0,
                        raised |-> "none"] :
                         k \in {"Drop", "Hold"}, n \in 0..MaxMentions,
                         b \in SUBSET Members}
  /\ out = "none"

\* Admin.deny: self.bot.deny_commands = not self.bot.deny_commands
AdminDeny ==
  /\ deny_commands' = ~ deny_commands
  /\ UNCHANGED << onready, schedVars, sheetVars, msgVars, loopVars, histVars,
                  jobVars, pool, halt, inp, out >>

\* on_message up to dispatch_command: ignore_message drops a message of a bot
\* and, while deny_commands is set, every command that is no admin command.
OnMessage ==
  /\ inp.at \in {"new", "resubmit"}
  /\ inp' = [inp EXCEPT !.depth = @ + 1,
                        !.at = IF inp.author \in inp.bots \/ deny_commands
                                  THEN "ignored" ELSE "gate"]
  /\ UNCHANGED << botVars, out >>

\* dispatch_command: the loop on self.sched.disabled(args.cmd) is left.
Gate ==
  /\ inp.at = "gate"
  /\ ~ disabled(inp.kind)
  /\ inp' = [inp EXCEPT !.at = "perms"]
  /\ UNCHANGED << botVars, out >>

\* cogdb.query.check_perms(msg, args): returns, or raises InvalidPerms, which
\* on_message answers.
CheckPerms ==
  /\ inp.at = "perms"
  /\ \E ok \in BOOLEAN :
       inp' = [inp EXCEPT !.at = IF ok THEN "execute" ELSE "replied",
                          !.passed = IF ok THEN @ + 1 ELSE @,
                          !.raised = IF ok THEN @ ELSE "InvalidPerms"]
  /\ UNCHANGED << botVars, out >>

TooMany_never(n) ==
  FALSE

\* if len(self.msg.mentions) != 1:
TooMany(n) ==
  n # 1

\* cls(**kwargs).execute(), which is check_mentions: without a mention the
\* decorated coroutine runs; with one the author is replaced, the mentions are
\* cleared and the message goes to on_message again; with more
\* InvalidCommandArgs is raised, which on_message answers.
CheckMentions ==
  /\ inp.at = "execute"
  /\ inp' = IF inp.mentions = 0
            THEN [inp EXCEPT !.body = @ + 1, !.at = "done"]
            ELSE IF TooMany(inp.mentions)
            THEN [inp EXCEPT !.raised = "InvalidCommandArgs", !.at = "replied"]
            ELSE [inp EXCEPT !.author = "mentioned", !.mentions = 0,
                             !.resubmitted = @ + 1, !.at = "resubmit"]
  /\ UNCHANGED << botVars, out >>

NextMentions ==
  \/ AdminDeny
  \/ OnMessage
  \/ Gate
  \/ CheckPerms
  \/ CheckMentions

\* The event loop runs every coroutine that can go on.
FairnessMentions ==
  /\ WF_vars(OnMessage)
  /\ WF_vars(Gate)
  /\ WF_vars(CheckPerms)
  /\ WF_vars(CheckMentions)

SpecMentions == InitMentions /\ [][NextMentions]_vars /\ FairnessMentions

MentionsOver == {"ignored", "replied", "done"}

\* C30: the body of a Drop or Hold command runs at most once.  Without a
\* mention it runs for the author.  With one mention the author is replaced
\* by the mentioned member, the mentions are cleared and the message goes
\* through on_message once more, past the deny check, the gate and the
\* permission check, and the processing ends.  With more than one mention
\* InvalidCommandArgs is raised and the body never runs.
C30_BodyAtMostOnce ==
  /\ (inp.at = "new") ~> (inp.at \in MentionsOver)
  /\ [](/\ inp.body <= 1
        /\ inp.resubmitted <= 1
        /\ inp.depth <= 2
        /\ inp.body = 1 => inp.passed = inp.resubmitted + 1
        /\ (inp.body = 1 /\ inp.mentioned = 0) => inp.author = "author"
        /\ (inp.body = 1 /\ inp.mentioned = 1) => inp.author = "mentioned"
        /\ inp.resubmitted = 1 =>
             (inp.mentioned = 1 /\ inp.mentions = 0 /\ inp.author = "mentioned")
        /\ (inp.mentioned = 1 /\ inp.passed >= 1
              /\ ~ (inp.at = "execute" /\ inp.depth = 1))
             => inp.resubmitted = 1
        /\ inp.mentioned > 1 => inp.body = 0
        /\ (inp.mentioned > 1 /\ inp.at = "replied" /\ inp.passed = 1)
             => inp.raised = "InvalidCommandArgs")
  /\ [][(inp'.depth > inp.depth /\ inp'.at = "gate") => ~ deny_commands]_vars

\* A command with one mention has run its body for the mentioned member after
\* one re-submission.
C30_Witness ==
  /\ inp.mentioned = 1 /\ inp.body = 1 /\ inp.resubmitted = 1
  /\ inp.author = "mentioned" /\ inp.depth = 2 /\ inp.at = "done"
  /\ inp.passed = 2

====
